---- MODULE Spec2Model ----
(***************************************************************************)
(* Model of the consolidation pipeline of the waveform data manager        *)
(* (package "wave"): the file indexer read_path, the group merger          *)
(* group_datafiles driven by merge_tool, the reader read_data with its raw *)
(* formats v0 and v1 and the optimized file, the exporters driven by       *)
(* convert_tool, and the file lookups of the viewer.                       *)
(*                                                                         *)
(* Time is counted in whole microseconds relative to the cutover instant   *)
(* _DATETIME1 (2025-02-13 00:00:00), so that instant is 0.                 *)
(***************************************************************************)
EXTENDS Integers, Sequences, FiniteSets, TLC

VARIABLES
    rp_pc,        \* read_path: "scan" (in the rglob loop), "done", "raised"
    rp_allow,     \* read_path: the allow_no_fault_id argument
    rp_dir,       \* read_path: the paths under dir_path, in rglob order
    rp_todo,      \* read_path: the paths rglob has still to yield
    rp_records,   \* read_path: the list `records`
    rp_skipped,   \* read_path: the names skipped with a warning
    rp_result,    \* read_path: the returned table (rows sorted by ID)
    mt_pc,        \* merge_tool: "idle", "loop" (in the groupby loop), "done"
    mt_rows,      \* merge_tool: df_evts, the index table returned by read_path
    mt_run,       \* merge_tool: number of the current batch run
    mt_overwrite, \* merge_tool: args.overwrite of the current run
    mt_todo,      \* merge_tool: fault IDs the groupby loop has still to yield
    mt_log,       \* merge_tool: fault ID -> outcome logged in the current run
    mt_before,    \* merge_tool: fault IDs whose file existed when the run began
    disk,         \* the output directory: fault ID -> <faultId>.h5 or NoFile
    gd_ret,       \* group_datafiles: fault ID -> outcome of the last call
    gd_nread,     \* group_datafiles: fault ID -> raw files read by the last call
    rd_ftid,      \* reader: fault ID of the file read last (0: none yet)
    rd_store,     \* reader: the store it was opened as
    rd_ret,       \* reader: what _process_format_v0 returned for it
    ra_pc,        \* read_data: "idle", "call", "align", "derive", "done", "raised"
    ra_store,     \* read_data: the store opened from filepath
    ra_t_range,   \* read_data: the t_range argument, None or <<t1, t2>>
    ra_dfs,       \* read_data: what the format reader returned
    ra_df_all,    \* read_data: df_all
    ra_df,        \* read_data: df
    ra_checked,   \* read_data: the candidates whose sum() was computed
    ra_npermit_col, \* read_data: npermit_col
    ra_t0_idx,    \* read_data: t0_idx
    ra_t0_str,    \* read_data: t0_str
    ra_log,       \* read_data: the errors logged
    ra_ret,       \* read_data: the (df, t0_str) returned
    xp_pc,        \* optimized file: "idle", "exported", "raised", "read"
    xp_file,      \* optimized file: what _export_df_as_h5 left on disk
    xp_ret,       \* optimized file: what read_data(is_opt=True) returned
    cv_pc,        \* convert_tool: "idle", "loop" (in the loop over the paths), "done", "raised"
    cv_files,     \* convert_tool: data_filepaths, the stores of the sorted paths
    cv_fmts,      \* convert_tool: fmts, sorted
    cv_overwrite, \* convert_tool: args.overwrite
    cv_t_range,   \* convert_tool: (args.t1, args.t2)
    cv_broken,    \* convert_tool: the formats whose writer fails in this environment
    cv_todo,      \* convert_tool: positions of the paths the loop has still to yield
    cv_out,       \* the output directory: <<position, fmt>> -> <name>_opt.<fmt>
    cv_log,       \* convert_tool: position -> outcome of its iteration
    cv_read,      \* convert_tool: positions of the paths read_data was called on
    cv_tried,     \* export_df: the <<position, fmt>> whose writer was called
    vw_files,     \* viewer: the files under the data and image directories
    vw_cache,     \* viewer: DATA_PATH_CACHE
    vw_ftid,      \* viewer: loaded_image_ftid
    vw_img,       \* viewer: the last find_image_path call and what it returned
    vw_data       \* viewer: the last find_data_path call and what it returned

rp_vars == <<rp_pc, rp_allow, rp_dir, rp_todo, rp_records, rp_skipped, rp_result>>
mt_vars == <<mt_pc, mt_rows, mt_run, mt_overwrite, mt_todo, mt_log, mt_before,
             disk, gd_ret, gd_nread>>
rd_vars == <<rd_ftid, rd_store, rd_ret>>
ra_vars == <<ra_pc, ra_store, ra_t_range, ra_dfs, ra_df_all, ra_df, ra_checked,
             ra_npermit_col, ra_t0_idx, ra_t0_str, ra_log, ra_ret>>
xp_vars == <<xp_pc, xp_file, xp_ret>>
cv_vars == <<cv_pc, cv_files, cv_fmts, cv_overwrite, cv_t_range, cv_broken, cv_todo,
             cv_out, cv_log, cv_read, cv_tried>>
vw_vars == <<vw_files, vw_cache, vw_ftid, vw_img, vw_data>>
vars == <<rp_vars, mt_vars, rd_vars, ra_vars, xp_vars, cv_vars, vw_vars>>

(***************************************************************************)
(* Bounds of the model.                                                    *)
(***************************************************************************)
MaxFiles == 2
MaxRows == 2
MaxSamples == 2
MaxRuns == 2

(***************************************************************************)
(* Characters and numbers.                                                 *)
(***************************************************************************)
\* A character of a file name is a decimal digit 0..9, Letter (any character
\* int() rejects) or Underscore.
Letter == 10
Underscore == 11

RECURSIVE Pow10(_)
Pow10(k) == IF k = 0 THEN 1 ELSE 10 * Pow10(k - 1)

IsDigit(c) == c \in 0..9

\* int(s) raises ValueError unless s is a run of digits in which single
\* underscores may separate digits.
IntOk(s) ==
    /\ Len(s) > 0
    /\ IsDigit(s[1]) /\ IsDigit(s[Len(s)])
    /\ \A i \in 1..Len(s) : IsDigit(s[i]) \/ s[i] = Underscore
    /\ \A i \in 1..(Len(s) - 1) : ~(s[i] = Underscore /\ s[i + 1] = Underscore)

RECURSIVE IntVal(_)
IntVal(s) ==
    IF s = <<>> THEN 0
    ELSE IF s[Len(s)] = Underscore THEN IntVal(SubSeq(s, 1, Len(s) - 1))
    ELSE 10 * IntVal(SubSeq(s, 1, Len(s) - 1)) + s[Len(s)]

\* str(n) of a non-negative int: its decimal digits, no leading zero.
RECURSIVE Str(_)
Str(n) == IF n < 10 THEN <<n>> ELSE Append(Str(n \div 10), n % 10)

(***************************************************************************)
(* File names.  A name is kept as the parts the two patterns split it      *)
(* into: shape "full" is <grp>-<ts1>-<ts2>_<ftid>.h5, shape "noftid" is    *)
(* <grp>-<ts1>-<ts2>.h5, and shape "other" is a .h5 name without the two   *)
(* dashes.  ts2 is a sequence of characters, ts1 a date and time string.    *)
(***************************************************************************)
GroupNames == {"BCM4", "D2212"}
FtidValues == {12345}

\* The <ts1>, <ts2> parts tried: instants around the cutover, a fraction with
\* leading zeros, and parts that are not numbers.
TimeParts ==
    { <<"20250212T233000", <<0, 0, 0, 0, 0, 0>> >>,
      <<"20250212T233000", <<0, 0, 0, 1, 0, 0>> >>,
      <<"20250212T235959", <<9, 9, 9, 9, 9, 9>> >>,
      <<"20250213T000000", <<0, 0, 0, 0, 0, 0>> >>,
      <<"20250213T000000", <<1, 2, 3, 4, 5, 6>> >>,
      <<"20250213T000001", <<0, 0, 0, 0, 0, 0>> >>,
      <<"2025bad", <<0, 0, 0, 0, 0, 0>> >>,
      <<"20250212T233000", <<Letter, Letter>> >> }

OtherName ==
    [shape |-> "other", grp |-> "notes", ts1 |-> "", ts2 |-> <<>>, ftid |-> 0]

FileNames ==
    { [shape |-> "full", grp |-> g, ts1 |-> t[1], ts2 |-> t[2], ftid |-> f] :
        g \in GroupNames, t \in TimeParts, f \in FtidValues }
    \cup
    { [shape |-> "noftid", grp |-> g, ts1 |-> t[1], ts2 |-> t[2], ftid |-> 0] :
        g \in GroupNames, t \in TimeParts }
    \cup {OtherName}

\* The result of a failed re.match.
None == <<>>

\* _PATTERN.match(name).groups()
PATTERN(name) ==
    IF name.shape = "full"
    THEN <<name.grp, name.ts1, name.ts2, name.ftid>>
    ELSE None

\* _PATTERN_NO_FTID.match(name).groups(): on a name with a fault ID the third
\* group runs up to ".h5" and takes "_<ftid>" with it.
PATTERN_NO_FTID(name) ==
    CASE name.shape = "noftid" -> <<name.grp, name.ts1, name.ts2>>
      [] name.shape = "full" ->
            <<name.grp, name.ts1, name.ts2 \o <<Underscore>> \o Str(name.ftid)>>
      [] OTHER -> None

\* T_US_OFFSET.get(grp_name, 0)
T_US_OFFSET(grp_name) ==
    CASE grp_name = "BCM4" -> 0
      [] grp_name = "BCM5" -> 0
      [] grp_name = "BCM6" -> 0
      [] OTHER -> 0

\* grp_name.startswith('BCM')
StartsWithBCM(grp_name) == grp_name \in {"BCM4", "BCM5", "BCM6"}

\* _DATETIME1, the cutover instant.
DATETIME1 == 0

\* strptime of the "%Y%m%dT%H%M%S" part: whole seconds from the cutover
\* instant; a part that is not a date and time raises ValueError.
Ts1Ok(ts1) ==
    ts1 \in {"20250212T233000", "20250212T235959", "20250213T000000",
             "20250213T000001"}

Ts1Seconds(ts1) ==
    CASE ts1 = "20250212T233000" -> -1800
      [] ts1 = "20250212T235959" -> -1
      [] ts1 = "20250213T000000" -> 0
      [] ts1 = "20250213T000001" -> 1

\* strptime of the ".%f" part: one to six digits, read as a decimal fraction
\* of a second (the digits are padded with zeros on the right).
FractionOk(n) == n >= 0 /\ Len(Str(n)) <= 6
FractionMicros(n) == n * Pow10(6 - Len(Str(n)))

\* datetime.strptime(f"{ts1}.{ts2}", "%Y%m%dT%H%M%S.%f"), ts2 an int.
StrptimeOk(ts1, n) == Ts1Ok(ts1) /\ FractionOk(n)
Strptime(ts1, n) == Ts1Seconds(ts1) * 1000000 + FractionMicros(n)

\* TimeTypeOf with the cutover instant itself counted as after the cutover.
TimeTypeOf_exclusive(ts, grp_name) ==
    IF ts < DATETIME1
    THEN (IF StartsWithBCM(grp_name) THEN 1 ELSE 0)
    ELSE 0

\* The time reference of a row: 0 start, 1 end.
TimeTypeOf(ts, grp_name) ==
    IF ts <= DATETIME1
    THEN (IF StartsWithBCM(grp_name) THEN 1 ELSE 0)
    ELSE 0

DevTypeOf(grp_name) == IF StartsWithBCM(grp_name) THEN "BCM" ELSE "BPM"

\* The default of the fault_id argument of read_path.
DefaultFaultId == 90000

(***************************************************************************)
(* read_path, one iteration of its loop over rglob.  The outcome of the    *)
(* body for one path is "skip", "raise" or "row".                          *)
(***************************************************************************)
ReadPathMatch(pth, allow) ==
    IF PATTERN(pth) = None /\ allow THEN PATTERN_NO_FTID(pth) ELSE PATTERN(pth)

ReadPathOutcome(pth, allow) ==
    LET r == ReadPathMatch(pth, allow) IN
    IF r = None THEN "skip"
    ELSE IF allow /\ Len(r) # 3 THEN "raise"     \* too many values to unpack
    ELSE IF ~IntOk(r[3]) THEN "raise"            \* int(ts2)
    ELSE IF ~StrptimeOk(r[2], IntVal(r[3]) + T_US_OFFSET(r[1])) THEN "raise"
    ELSE "row"

ReadPathRecord(pth, allow, fault_id) ==
    LET r == ReadPathMatch(pth, allow)
        ftid == IF allow THEN fault_id ELSE r[4]
        ts2 == IntVal(r[3]) + T_US_OFFSET(r[1])
        ts == Strptime(r[2], ts2)
    IN  [ID |-> ftid, Name |-> r[1], Filename |-> pth, TimeStamp |-> ts,
         TimeType |-> TimeTypeOf(ts, r[1]), DevType |-> DevTypeOf(r[1])]

\* df.set_index('ID').sort_index(): the rows in ascending order of ID.
RECURSIVE InsertByID(_, _)
InsertByID(sorted, row) ==
    IF sorted = <<>> THEN <<row>>
    ELSE IF sorted[Len(sorted)].ID <= row.ID THEN Append(sorted, row)
    ELSE Append(InsertByID(SubSeq(sorted, 1, Len(sorted) - 1), row),
                sorted[Len(sorted)])

RECURSIVE SortByID(_)
SortByID(rows) ==
    IF rows = <<>> THEN <<>>
    ELSE InsertByID(SortByID(SubSeq(rows, 1, Len(rows) - 1)), rows[Len(rows)])

ReadPathStep ==
    /\ rp_pc = "scan"
    /\ rp_todo # <<>>
    /\ LET pth == Head(rp_todo)
           out == ReadPathOutcome(pth, rp_allow)
       IN  /\ rp_todo' = IF out = "raise" THEN rp_todo ELSE Tail(rp_todo)
           /\ rp_pc' = IF out = "raise" THEN "raised" ELSE "scan"
           /\ rp_skipped' = IF out = "skip" THEN Append(rp_skipped, pth)
                            ELSE rp_skipped
           /\ rp_records' =
                IF out = "row"
                THEN Append(rp_records, ReadPathRecord(pth, rp_allow, DefaultFaultId))
                ELSE rp_records
    /\ UNCHANGED <<rp_allow, rp_dir, rp_result, mt_vars, rd_vars, ra_vars, xp_vars, cv_vars, vw_vars>>

ReadPathReturn ==
    /\ rp_pc = "scan"
    /\ rp_todo = <<>>
    /\ rp_pc' = "done"
    /\ rp_result' = SortByID(rp_records)
    /\ UNCHANGED <<rp_allow, rp_dir, rp_todo, rp_records, rp_skipped, mt_vars, rd_vars,
                   ra_vars, xp_vars, cv_vars, vw_vars>>

(***************************************************************************)
(* Raw per-device files, as the acquisition tasks write them: a table      *)
(* whose row labels are the channel names, with one column per sample and  *)
(* a PV column.  A raw file is [ok, n]: whether pd.read_hdf can load it,   *)
(* and its number of samples.                                              *)
(***************************************************************************)
Devices == {"BCM4", "BCM5", "D2212"}

\* The row labels of the raw table of a device.
RawIndex(name) ==
    CASE name = "BCM4" -> {"BCM_D2183", "BCM4_NPERMIT"}
      [] name = "BCM5" -> {"BCM_D2264", "BCM_D2519", "BCM5_NPERMIT"}
      [] name = "D2212" -> {"FS1_CSS:BPM_D2212:BEAMST", "FS1_CSS:BPM_D2212:PHA1",
                            "FS1_CSS:BPM_D2212:MAG1"}

ChannelNo(c) ==
    CASE c = "BCM_D2183" -> 1
      [] c = "BCM4_NPERMIT" -> 2
      [] c = "BCM_D2264" -> 3
      [] c = "BCM_D2519" -> 4
      [] c = "BCM5_NPERMIT" -> 5
      [] c = "FS1_CSS:BPM_D2212:BEAMST" -> 6
      [] c = "FS1_CSS:BPM_D2212:PHA1" -> 7
      [] c = "FS1_CSS:BPM_D2212:MAG1" -> 8

\* Sample i (0-based) of raw channel c: every sample of every channel has a
\* value of its own.
RawSample(c, i) == 10 * ChannelNo(c) + i

\* The PV column of the raw table.
RawPV(c) == <<"PV", c>>

\* A missing value of a table.
NaN == -1

\* str.replace(r".*:(BPM_D[0-9]{4}.*)", r"\1", regex=True)
StripPrefix(c) ==
    CASE c = "FS1_CSS:BPM_D2212:BEAMST" -> "BPM_D2212:BEAMST"
      [] c = "FS1_CSS:BPM_D2212:PHA1" -> "BPM_D2212:PHA1"
      [] c = "FS1_CSS:BPM_D2212:MAG1" -> "BPM_D2212:MAG1"
      [] OTHER -> c

\* 'MAG' in c, 'PHA' in c, 'BEAMST' in c, 'NPERMIT' in c
HasMAG(c) == c \in {"BPM_D2212:MAG1", "BPM_D2212:MAG2", "BPM_D2212:MAG3",
                   "BPM_D2212:MAG4", "BPM_D2212-MAG"}
HasPHA(c) == c \in {"BPM_D2212:PHA1", "BPM_D2212:PHA2", "BPM_D2212:PHA3",
                   "BPM_D2212:PHA4", "BPM_D2212-PHA"}
HasBEAMST(c) == c \in {"BPM_D2212:BEAMST"}
HasNPERMIT(c) == c \in {"BCM4_NPERMIT", "BCM5_NPERMIT", "BCM6_NPERMIT"}

(***************************************************************************)
(* Tables.  A table is [idx, cols, val]: the set of its index values       *)
(* (instants), the set of its column names and the value of each column at *)
(* each instant.  A DatetimeIndex is kept in ascending order by pandas     *)
(* whenever it results from a union, so the set stands for it.             *)
(***************************************************************************)
EmptyTable == [idx |-> {}, cols |-> {}, val |-> <<>>]

\* DateRange with the timestamp always taken as the start of the range.
DateRange_start(ts, n, time_type) == [i \in 1..n |-> ts + (i - 1)]

\* pd.date_range(start=ts, periods=n, freq='us') when time_type is 0,
\* pd.date_range(end=ts, periods=n, freq='us') otherwise; entry i+1 is the
\* instant of sample i.
DateRange(ts, n, time_type) ==
    IF time_type = 0
    THEN [i \in 1..n |-> ts + (i - 1)]
    ELSE [i \in 1..n |-> ts - (n - i)]

Range(f) == {f[i] : i \in DOMAIN f}

\* _df.T.set_index(_t_idx) of one row of the fault group.
RowFrame(row) ==
    LET t_idx == DateRange(row.TimeStamp, row.FilePath.n, row.TimeType)
        raw == RawIndex(row.Name)
        pos(t) == CHOOSE i \in DOMAIN t_idx : t_idx[i] = t
    IN  [idx |-> Range(t_idx),
         cols |-> {StripPrefix(c) : c \in raw},
         val |-> [x \in {StripPrefix(c) : c \in raw} \X Range(t_idx) |->
                    LET c == CHOOSE r \in raw : StripPrefix(r) = x[1]
                    IN  RawSample(c, pos(x[2]) - 1)]]

\* Concat keeping only the instants every frame has (an inner join).
Concat_inner(v) ==
    LET all == UNION {v[i].idx : i \in DOMAIN v}
        idx == {t \in all : \A i \in DOMAIN v : t \in v[i].idx}
        cols == UNION {v[i].cols : i \in DOMAIN v}
        own(c) == v[CHOOSE i \in DOMAIN v : c \in v[i].cols]
    IN  [idx |-> idx, cols |-> cols,
         val |-> [x \in cols \X idx |-> own(x[1]).val[x]]]

\* pd.concat(v, axis=1): the union of the indexes, every column of every
\* frame, NaN where a frame has no row.
Concat(v) ==
    LET idx == UNION {v[i].idx : i \in DOMAIN v}
        cols == UNION {v[i].cols : i \in DOMAIN v}
        own(c) == v[CHOOSE i \in DOMAIN v : c \in v[i].cols]
    IN  [idx |-> idx, cols |-> cols,
         val |-> [x \in cols \X idx |->
                    IF x[2] \in own(x[1]).idx THEN own(x[1]).val[x] ELSE NaN]]

\* df[sorted(c for c in df.columns if keep(c))]
Select(df, keep) ==
    [idx |-> df.idx, cols |-> keep,
     val |-> [x \in keep \X df.idx |-> df.val[x]]]

\* datetime.isoformat(): whole seconds, then the six digits of the
\* microsecond unless the microsecond is 0.
Pad6(n) == [i \in 1..(6 - Len(Str(n))) |-> 0] \o Str(n)

\* IsoFormat writing the microsecond without its leading zeros.
IsoFormat_unpadded(ts) ==
    [seconds |-> ts \div 1000000,
     fraction |-> IF ts % 1000000 = 0 THEN <<>> ELSE Str(ts % 1000000)]

IsoFormat(ts) ==
    [seconds |-> ts \div 1000000,
     fraction |-> IF ts % 1000000 = 0 THEN <<>> ELSE Pad6(ts % 1000000)]

(***************************************************************************)
(* Consolidated files.  A file of the output directory is                  *)
(* [exists, closed, keys, info_pv, info_time, tab, src]: the keys put into *)
(* the store, the two INFO tables, the waveform tables, and the fault      *)
(* group it was written from.                                              *)
(***************************************************************************)
WaveKeys == {"BCM/DATA", "BCM/NPERMIT", "BPM/MAG", "BPM/PHA", "BPM/BEAMST"}

NoFile ==
    [exists |-> FALSE, closed |-> FALSE, keys |-> {}, info_pv |-> <<>>,
     info_time |-> <<>>, tab |-> [k \in WaveKeys |-> EmptyTable], src |-> <<>>]

\* pd.HDFStore(out_filepath, mode="w"): the file is created, or truncated.
OpenedStore == [NoFile EXCEPT !.exists = TRUE]

\* The key of _info['Time'] for a row.
InfoName(row) ==
    IF row.DevType = "BPM"
    THEN (CASE row.Name = "D2212" -> "BPM_D2212")
    ELSE row.Name

\* The rows of df_grp of one device category, as frames.
CategoryFrames(df_grp, dev_type) ==
    LET rows == SelectSeq(df_grp, LAMBDA r : r.DevType = dev_type)
    IN  [i \in DOMAIN rows |-> RowFrame(rows[i])]

\* The store once every row of df_grp has been loaded and the tables put.
MergedStore(df_grp) ==
    LET chans == UNION {RawIndex(df_grp[i].Name) : i \in DOMAIN df_grp}
        names == {InfoName(df_grp[i]) : i \in DOMAIN df_grp}
        last(nm) == CHOOSE i \in DOMAIN df_grp :
                        /\ InfoName(df_grp[i]) = nm
                        /\ \A j \in DOMAIN df_grp :
                              InfoName(df_grp[j]) = nm => j <= i
        bcm == CategoryFrames(df_grp, "BCM")
        bpm == CategoryFrames(df_grp, "BPM")
        df_bcm == Concat(bcm)
        df_bpm == Concat(bpm)
    IN  [exists |-> TRUE, closed |-> TRUE,
         keys |-> {"INFO/PV", "INFO/TIME"}
                  \cup (IF bcm # <<>> THEN {"BCM/DATA", "BCM/NPERMIT"} ELSE {})
                  \cup (IF bpm # <<>> THEN {"BPM/MAG", "BPM/PHA", "BPM/BEAMST"}
                        ELSE {}),
         info_pv |-> [c \in {StripPrefix(r) : r \in chans} |->
                        RawPV(CHOOSE r \in chans : StripPrefix(r) = c)],
         info_time |-> [nm \in names |-> IsoFormat(df_grp[last(nm)].TimeStamp)],
         tab |-> [k \in WaveKeys |->
                    CASE k = "BCM/DATA" ->
                            Select(df_bcm, {c \in df_bcm.cols : ~HasNPERMIT(c)})
                      [] k = "BCM/NPERMIT" ->
                            Select(df_bcm, {c \in df_bcm.cols : HasNPERMIT(c)})
                      [] k = "BPM/MAG" ->
                            Select(df_bpm, {c \in df_bpm.cols : HasMAG(c)})
                      [] k = "BPM/PHA" ->
                            Select(df_bpm, {c \in df_bpm.cols : HasPHA(c)})
                      [] k = "BPM/BEAMST" ->
                            Select(df_bpm, {c \in df_bpm.cols : HasBEAMST(c)})],
         src |-> df_grp]

\* The position of the first row of df_grp whose raw file cannot be loaded
\* (0 when every file loads).
FirstUnreadable(df_grp) ==
    IF \A i \in DOMAIN df_grp : df_grp[i].FilePath.ok THEN 0
    ELSE CHOOSE i \in DOMAIN df_grp :
            /\ ~df_grp[i].FilePath.ok
            /\ \A j \in 1..(i - 1) : df_grp[j].FilePath.ok

\* group_datafiles without the early return on an existing file.
group_datafiles_rewrite(df_grp, old, overwrite) ==
    IF FirstUnreadable(df_grp) # 0
    THEN [ret |-> "raised", file |-> OpenedStore,
          nread |-> FirstUnreadable(df_grp)]
    ELSE [ret |-> "path", file |-> MergedStore(df_grp), nread |-> Len(df_grp)]

\* group_datafiles with the body of its loop in a try/except that logs and
\* goes on to the next row.
group_datafiles_catching(df_grp, old, overwrite) ==
    IF old.exists /\ ~overwrite
    THEN [ret |-> "None", file |-> old, nread |-> 0]
    ELSE [ret |-> "path",
          file |-> MergedStore(SelectSeq(df_grp, LAMBDA r : r.FilePath.ok)),
          nread |-> Len(df_grp)]

\* group_datafiles(ftid, df_grp, root_dir, overwrite) where old is
\* <root_dir>/<ftid>.h5 before the call: what it returns ("None", a "path",
\* or "raised" when an exception leaves it), the file after the call and the
\* number of pd.read_hdf calls made.
group_datafiles(df_grp, old, overwrite) ==
    IF old.exists /\ ~overwrite
    THEN [ret |-> "None", file |-> old, nread |-> 0]
    ELSE IF FirstUnreadable(df_grp) # 0
    THEN [ret |-> "raised", file |-> OpenedStore,
          nread |-> FirstUnreadable(df_grp)]
    ELSE [ret |-> "path", file |-> MergedStore(df_grp), nread |-> Len(df_grp)]

(***************************************************************************)
(* merge_tool: the loop over the fault groups of the index table.          *)
(***************************************************************************)
MergeFaultIds == {777, 12345}

\* df_evts.groupby(df_evts.index): the distinct fault IDs in ascending order,
\* each with its rows in table order.
RECURSIVE GroupIds(_)
GroupIds(rows) ==
    IF rows = <<>> THEN <<>>
    ELSE LET rest == GroupIds(SubSeq(rows, 1, Len(rows) - 1))
             id == rows[Len(rows)].ID
         IN  IF \E i \in DOMAIN rest : rest[i] = id THEN rest
             ELSE Append(rest, id)

GroupOf(rows, ftid) == SelectSeq(rows, LAMBDA r : r.ID = ftid)

MergeStart ==
    /\ mt_pc \in {"idle", "done"}
    /\ mt_run < MaxRuns
    /\ \E overwrite \in BOOLEAN : mt_overwrite' = overwrite
    /\ mt_run' = mt_run + 1
    /\ mt_pc' = "loop"
    /\ mt_todo' = GroupIds(mt_rows)
    /\ mt_log' = [f \in MergeFaultIds |-> "none"]
    /\ mt_before' = {f \in MergeFaultIds : disk[f].exists}
    /\ gd_ret' = [f \in MergeFaultIds |-> "none"]
    /\ gd_nread' = [f \in MergeFaultIds |-> 0]
    /\ UNCHANGED <<mt_rows, disk, rp_vars, rd_vars, ra_vars, xp_vars, cv_vars, vw_vars>>

MergeGroup ==
    /\ mt_pc = "loop"
    /\ mt_todo # <<>>
    /\ LET ftid == Head(mt_todo)
           grp == GroupOf(mt_rows, ftid)
           r == group_datafiles(grp, disk[ftid], mt_overwrite)
       IN  /\ disk' = [disk EXCEPT ![ftid] = r.file]
           /\ gd_ret' = [gd_ret EXCEPT ![ftid] = r.ret]
           /\ gd_nread' = [gd_nread EXCEPT ![ftid] = r.nread]
           /\ mt_log' = [mt_log EXCEPT ![ftid] =
                            CASE r.ret = "raised" -> "error"
                              [] r.ret = "None" -> "skipped"
                              [] OTHER -> "merged"]
    /\ mt_todo' = Tail(mt_todo)
    /\ UNCHANGED <<mt_pc, mt_rows, mt_run, mt_overwrite, mt_before, rp_vars, rd_vars,
                   ra_vars, xp_vars, cv_vars, vw_vars>>

MergeEnd ==
    /\ mt_pc = "loop"
    /\ mt_todo = <<>>
    /\ mt_pc' = "done"
    /\ UNCHANGED <<mt_rows, mt_run, mt_overwrite, mt_todo, mt_log, mt_before,
                   disk, gd_ret, gd_nread, rp_vars, rd_vars, ra_vars, xp_vars, cv_vars, vw_vars>>

(***************************************************************************)
(* The v0 raw format reader.                                               *)
(***************************************************************************)
\* rename(columns={"BCM_D1120": "BCM_D1120c", "BCM_D2183": "BCM_D0989"})
RenameV0(c) ==
    CASE c = "BCM_D1120" -> "BCM_D1120c"
      [] c = "BCM_D2183" -> "BCM_D0989"
      [] OTHER -> c

RenameColumns(t) ==
    LET cols == {RenameV0(c) : c \in t.cols}
    IN  [idx |-> t.idx, cols |-> cols,
         val |-> [x \in cols \X t.idx |->
                    t.val[<<CHOOSE c \in t.cols : RenameV0(c) = x[1], x[2]>>]]]

\* The labels the regex (BPM_D[0-9]{4}).* matches, and its first group.
IsBpmLabel(c) == c = "BPM_D2212:BEAMST" \/ HasMAG(c) \/ HasPHA(c)
BpmBase(c) == CASE IsBpmLabel(c) -> "BPM_D2212"

\* The tables of the keys, in the order given, that the store holds.
RECURSIVE StoredTables(_, _)
StoredTables(store, ks) ==
    IF ks = <<>> THEN <<>>
    ELSE IF Head(ks) \in store.keys
    THEN <<store.tab[Head(ks)]>> \o StoredTables(store, Tail(ks))
    ELSE StoredTables(store, Tail(ks))

\* _process_format_v0 reading "/BPM/MAG" only.
process_format_v0_mag(store) ==
    LET bcm == StoredTables(store, <<"BCM/DATA", "BCM/NPERMIT">>)
        bcm_dfs == [i \in DOMAIN bcm |-> RenameColumns(bcm[i])]
        bpm_dfs == StoredTables(store, <<"BPM/MAG">>)
    IN  IF "INFO/PV" \notin store.keys
        THEN [ok |-> FALSE, dfs |-> <<>>, names |-> {}]
        ELSE [ok |-> TRUE, dfs |-> bcm_dfs \o bpm_dfs,
              names |-> {BpmBase(c) : c \in {x \in DOMAIN store.info_pv :
                                                IsBpmLabel(x)}}]

\* _process_format_v0(store): (frames, BPM names), or (None, None) as ok FALSE.
process_format_v0(store) ==
    LET bcm == StoredTables(store, <<"BCM/DATA", "BCM/NPERMIT">>)
        bcm_dfs == [i \in DOMAIN bcm |-> RenameColumns(bcm[i])]
        bpm_dfs == StoredTables(store, <<"BPM/MAG", "BPM/PHA">>)
    IN  IF "INFO/PV" \notin store.keys
        THEN [ok |-> FALSE, dfs |-> <<>>, names |-> {}]
        ELSE [ok |-> TRUE, dfs |-> bcm_dfs \o bpm_dfs,
              names |-> {BpmBase(c) : c \in {x \in DOMAIN store.info_pv :
                                                IsBpmLabel(x)}}]

NotRead == [ok |-> FALSE, dfs |-> <<>>, names |-> {}]

ReadV0 ==
    /\ mt_pc = "done"
    /\ \E ftid \in MergeFaultIds :
          /\ disk[ftid].exists
          /\ rd_ftid' = ftid
          /\ rd_store' = disk[ftid]
          /\ rd_ret' = process_format_v0(disk[ftid])
    /\ UNCHANGED <<mt_vars, rp_vars, ra_vars, xp_vars, cv_vars, vw_vars>>

(***************************************************************************)
(* Files given to read_data.  A store is                                   *)
(* [filename, keys, info_pv, tab, grp, t0, bcm, bpm, bcm_fscale]: the keys *)
(* it holds, the v0 blocks (info_pv, tab) and the v1 blocks (the group     *)
(* membership map, the first-sample time of each group, the flat BCM and   *)
(* BPM tables whose rows are sample positions, and the calibration map).   *)
(* The captures are those the acquisition tasks record: the three BCM      *)
(* chassis, each with its permit bit, and one BPM with its four magnitude  *)
(* and phase components.                                                   *)
(***************************************************************************)
MaxLen == 3

ReadDevices == <<"BCM4", "BCM5", "BCM6", "D2212">>

\* bcm4_index, bcm5_index, bcm6_index of the BCM task and the names of the
\* BPM task.
ReadChannels(dev) ==
    CASE dev = "BCM4" -> {"BCM_D2183", "BCM4_NPERMIT"}
      [] dev = "BCM5" -> {"BCM_D2264", "BCM_D2519", "BCM5_NPERMIT"}
      [] dev = "BCM6" -> {"BCM_D1120", "BCM_D5521", "BCM6_NPERMIT"}
      [] dev = "D2212" -> {"BPM_D2212:MAG1", "BPM_D2212:MAG2", "BPM_D2212:MAG3",
                           "BPM_D2212:MAG4", "BPM_D2212:PHA1", "BPM_D2212:PHA2",
                           "BPM_D2212:PHA3", "BPM_D2212:PHA4"}

\* f"{name}:MAG{i}" and f"{name}:PHA{i}"
MagColumn(name, i) ==
    CASE name = "BPM_D2212" ->
        (CASE i = 1 -> "BPM_D2212:MAG1" [] i = 2 -> "BPM_D2212:MAG2"
           [] i = 3 -> "BPM_D2212:MAG3" [] i = 4 -> "BPM_D2212:MAG4")

PhaColumn(name, i) ==
    CASE name = "BPM_D2212" ->
        (CASE i = 1 -> "BPM_D2212:PHA1" [] i = 2 -> "BPM_D2212:PHA2"
           [] i = 3 -> "BPM_D2212:PHA3" [] i = 4 -> "BPM_D2212:PHA4")

\* f"{name}-MAG" and f"{name}-PHA"
MagName(name) == CASE name = "BPM_D2212" -> "BPM_D2212-MAG"
PhaName(name) == CASE name = "BPM_D2212" -> "BPM_D2212-PHA"

\* f"BPM_{i}" of a v1 group name.
BpmName(grp_name) == CASE grp_name = "D2212" -> "BPM_D2212"

\* The columns the regex BPM_.*[1-4]{1}$ matches.
IsBpmComponent(c) == c \in ReadChannels("D2212")

\* The shape of a capture set: the number n of samples of each capture, the
\* bits p4, p5, p6 of the three permit channels (<<>> when the chassis was
\* not captured), and whether the BPM was captured ("none"), at the same
\* instant as the BCMs ("same") or later ("late").
Bits(n) == [1..n -> {0, 1}]

Shapes ==
    UNION { { [n |-> n, p4 |-> a, p5 |-> b, p6 |-> c, bpm |-> m] :
                a \in {<<>>} \cup Bits(n),
                b \in {<<>>} \cup Bits(n),
                c \in {<<>>, [i \in 1..n |-> 0], [i \in 1..n |-> 1]},
                m \in {"none", "same", "late"} } : n \in 1..MaxLen }

PermitBits(s, c) ==
    CASE c = "BCM4_NPERMIT" -> s.p4
      [] c = "BCM5_NPERMIT" -> s.p5
      [] c = "BCM6_NPERMIT" -> s.p6

\* The devices of a shape, in the order of ReadDevices.
Captured(s, dev) ==
    CASE dev = "BCM4" -> s.p4 # <<>>
      [] dev = "BCM5" -> s.p5 # <<>>
      [] dev = "BCM6" -> s.p6 # <<>>
      [] dev = "D2212" -> s.bpm # "none"

ShapeDevices(s) == SelectSeq(ReadDevices, LAMBDA d : Captured(s, d))
ShapeChannels(s, devs) == UNION {ReadChannels(d) : d \in devs}
BcmDevices(s) == {d \in Range(ShapeDevices(s)) : StartsWithBCM(d)}
BpmDevices(s) == {d \in Range(ShapeDevices(s)) : ~StartsWithBCM(d)}

\* The instant of the first sample of a capture: the BCM captures start one
\* microsecond before a whole second, a late BPM capture two microseconds
\* after them.
FirstInstant(s, dev) ==
    IF StartsWithBCM(dev) THEN 999999
    ELSE IF s.bpm = "late" THEN 1000001 ELSE 999999

\* Sample i (0-based) of channel c: the recorded bit of a permit channel,
\* phase 0 and magnitude k + i for component k of the BPM, and a value of
\* its own for each BCM current.
SynthSample(s, c, i) ==
    CASE HasNPERMIT(c) -> PermitBits(s, c)[i + 1]
      [] c \in {"BPM_D2212:PHA1", "BPM_D2212:PHA2", "BPM_D2212:PHA3",
                "BPM_D2212:PHA4"} -> 0
      [] c = "BPM_D2212:MAG1" -> 1 + i
      [] c = "BPM_D2212:MAG2" -> 2 + i
      [] c = "BPM_D2212:MAG3" -> 3 + i
      [] c = "BPM_D2212:MAG4" -> 4 + i
      [] c = "BCM_D2183" -> 20 + i
      [] c = "BCM_D2264" -> 30 + i
      [] c = "BCM_D2519" -> 40 + i
      [] c = "BCM_D1120" -> 50 + i
      [] c = "BCM_D5521" -> 60 + i

\* The table of the channels chans of shape s whose first row is at start:
\* one row per sample, 1 microsecond apart.
SynthTable(s, chans, start) ==
    LET idx == {start + i : i \in 0..(s.n - 1)}
    IN  [idx |-> IF chans = {} THEN {} ELSE idx, cols |-> chans,
         val |-> [x \in chans \X idx |-> SynthSample(s, x[1], x[2] - start)]]

\* A calibration map: absent, without entries, or with every entry.
NoFscale == [present |-> FALSE, map |-> <<>>]

\* BCM_FSCALE_NAME_MAP
BCM_FSCALE_NAME_MAP(name) ==
    CASE name = "BCM_D0989" -> "FE_LEBT:BCM_D0989:FSCALE_CSET"
      [] name = "BCM_D1120" -> "FE_MEBT:BCM_D1120:FSCALE_CSET"
      [] name = "BCM_D2183" -> "FS1_CSS:BCM_D2183:FSCALE_CSET"
      [] name = "BCM_D2264" -> "FS1_CSS:BCM_D2264:FSCALE_CSET"
      [] name = "BCM_D2519" -> "FS1_BMS:BCM_D2519:FSCALE_CSET"
      [] name = "BCM_D2675" -> "FS1_BMS:BCM_D2675:FSCALE_CSET"
      [] name = "BCM_D3936" -> "FS2_BTS:BCM_D3936:FSCALE_CSET"
      [] name = "BCM_D4169" -> "FS2_BBS:BCM_D4169:FSCALE_CSET"
      [] name = "BCM_D5521" -> "BDS_BTS:BCM_D5521:FSCALE_CSET"
      [] name = "BCM_D5789" -> "BDS_FFS:BCM_D5789:FSCALE_CSET"
      [] name = "BCM_D1120c" -> "FE_COPY:BCM_D1120:FSCALE_CSET"

BcmNames ==
    {"BCM_D0989", "BCM_D1120", "BCM_D2183", "BCM_D2264", "BCM_D2519",
     "BCM_D2675", "BCM_D3936", "BCM_D4169", "BCM_D5521", "BCM_D5789",
     "BCM_D1120c"}

\* The scale factors tried: 2 for the channels of the front end, 3 for the
\* others.
FullFscale ==
    [pv \in {BCM_FSCALE_NAME_MAP(n) : n \in BcmNames} |->
        IF pv \in {"FE_LEBT:BCM_D0989:FSCALE_CSET", "FE_MEBT:BCM_D1120:FSCALE_CSET",
                   "FE_COPY:BCM_D1120:FSCALE_CSET"} THEN 2 ELSE 3]

Fscales ==
    {NoFscale, [present |-> TRUE, map |-> <<>>],
     [present |-> TRUE, map |-> FullFscale]}

\* A file as group_datafiles writes it (v0) from the captures of shape s;
\* with_pv tells whether the INFO tables were written.
SynthV0(s, with_pv) ==
    LET bcm == ShapeChannels(s, BcmDevices(s))
        bpm == ShapeChannels(s, BpmDevices(s))
        t_bcm == SynthTable(s, bcm, FirstInstant(s, "BCM4"))
        t_bpm == SynthTable(s, bpm, FirstInstant(s, "D2212"))
    IN  [filename |-> "777.h5",
         keys |-> (IF with_pv THEN {"INFO/PV", "INFO/TIME"} ELSE {})
                  \cup (IF bcm # {} THEN {"BCM/DATA", "BCM/NPERMIT"} ELSE {})
                  \cup (IF bpm # {} THEN {"BPM/MAG", "BPM/PHA"} ELSE {}),
         info_pv |-> [c \in bcm \cup bpm |-> RawPV(c)],
         tab |-> [k \in WaveKeys |->
                    CASE k = "BCM/DATA" ->
                            Select(t_bcm, {c \in bcm : ~HasNPERMIT(c)})
                      [] k = "BCM/NPERMIT" ->
                            Select(t_bcm, {c \in bcm : HasNPERMIT(c)})
                      [] k = "BPM/MAG" ->
                            Select(t_bpm, {c \in bpm : HasMAG(c)})
                      [] k = "BPM/PHA" ->
                            Select(t_bpm, {c \in bpm : HasPHA(c)})
                      [] OTHER -> EmptyTable],
         grp |-> <<>>, t0 |-> <<>>, bcm |-> EmptyTable, bpm |-> EmptyTable,
         bcm_fscale |-> NoFscale]

\* A v1 file of the captures of shape s: missing are the blocks left out,
\* untimed the groups without an entry in /t0.
SynthV1(s, filename, fscale, missing, untimed) ==
    LET devs == Range(ShapeDevices(s))
    IN  [filename |-> filename,
         keys |-> ({"grp", "t0", "bcm", "bpm"}
                   \cup (IF fscale.present THEN {"bcm_fscale"} ELSE {}))
                  \ missing,
         info_pv |-> <<>>,
         tab |-> [k \in WaveKeys |-> EmptyTable],
         grp |-> [d \in devs |-> ReadChannels(d)],
         t0 |-> [d \in devs \ untimed |-> FirstInstant(s, d)],
         bcm |-> SynthTable(s, ShapeChannels(s, BcmDevices(s)), 0),
         bpm |-> SynthTable(s, ShapeChannels(s, BpmDevices(s)), 0),
         bcm_fscale |-> fscale]

(***************************************************************************)
(* The v1 raw format reader.                                               *)
(***************************************************************************)
\* DATE_PRIOR_FIX (2025-05-12 10:00:00), in whole seconds from _DATETIME1.
DATE_PRIOR_FIX == 7639200

\* The file names tried for a v1 file, and strptime of their first 15
\* characters with "%Y%m%dT%H%M%S": whole seconds from _DATETIME1; a name
\* that does not begin with a date and time raises ValueError.
V1FileNames == {"20250512T095959_777.h5", "20250512T100000_777.h5", "777.h5"}

CreatedOk(filename) ==
    filename \in {"20250512T095959_777.h5", "20250512T100000_777.h5"}

CreatedDate(filename) ==
    CASE filename = "20250512T095959_777.h5" -> 7639199
      [] filename = "20250512T100000_777.h5" -> 7639200

\* _to_fix_bcm_dateset(full_filename): [raised, fix].  The except branch
\* formats store.filename, and no name store is bound in this function: the
\* NameError leaves the call.
to_fix_bcm_dateset(full_filename) ==
    IF ~CreatedOk(full_filename)
    THEN [raised |-> TRUE, fix |-> FALSE]
    ELSE [raised |-> FALSE, fix |-> CreatedDate(full_filename) < DATE_PRIOR_FIX]

\* _df.set_index(_t_idx) of a flat table whose rows are the positions 0..n-1.
SetIndex(t, t_idx) ==
    [idx |-> Range(t_idx), cols |-> t.cols,
     val |-> [x \in t.cols \X Range(t_idx) |->
                t.val[<<x[1], (CHOOSE i \in DOMAIN t_idx : t_idx[i] = x[2]) - 1>>]]]

\* The frame of one group of a v1 file: the columns of its members, indexed
\* from the first-sample time of the group.
GroupFrame(store, flat, grp_name, fix) ==
    LET sel == Select(flat, store.grp[grp_name])
        df == IF fix THEN RenameColumns(sel) ELSE sel
    IN  SetIndex(df, DateRange(store.t0[grp_name], Cardinality(flat.idx), 0))

\* The groups of a v1 file whose members all have a column in the flat table,
\* in the order of the group table.
UsableGroups(store, flat, bcm) ==
    SelectSeq(ReadDevices,
              LAMBDA g : /\ g \in DOMAIN store.grp
                         /\ StartsWithBCM(g) = bcm
                         /\ store.grp[g] \subseteq flat.cols)

NotReadData ==
    [ok |-> FALSE, raised |-> FALSE, dfs |-> <<>>, names |-> {}, fscale |-> NoFscale]

\* _process_format_v1(store): [ok, raised, dfs, names, fscale].  raised is
\* TRUE when an exception leaves the call, ok FALSE stands for (None, None);
\* fscale is attrs['fscale'] of the first BCM frame.
process_format_v1(store) ==
    LET fix_bcm == to_fix_bcm_dateset(store.filename)
        bcm_grps == UsableGroups(store, store.bcm, TRUE)
        bpm_grps == UsableGroups(store, store.bpm, FALSE)
        timed(grps) == \A i \in DOMAIN grps : grps[i] \in DOMAIN store.t0
    IN  IF ~({"t0", "grp", "bcm", "bpm"} \subseteq store.keys)
        THEN [NotReadData EXCEPT !.raised = TRUE]
        ELSE IF fix_bcm.raised
        THEN [NotReadData EXCEPT !.raised = TRUE]
        ELSE IF ~timed(bcm_grps) \/ ("bcm_fscale" \in store.keys /\ bcm_grps = <<>>)
        THEN NotReadData
        ELSE IF ~timed(bpm_grps)
        THEN NotReadData
        ELSE [ok |-> TRUE, raised |-> FALSE,
              dfs |-> [i \in DOMAIN bcm_grps |->
                         GroupFrame(store, store.bcm, bcm_grps[i], fix_bcm.fix)]
                      \o [i \in DOMAIN bpm_grps |->
                            GroupFrame(store, store.bpm, bpm_grps[i], FALSE)],
              names |-> {BpmName(bpm_grps[i]) : i \in DOMAIN bpm_grps},
              fscale |-> IF "bcm_fscale" \in store.keys THEN store.bcm_fscale
                         ELSE NoFscale]

\* The format reader read_data calls: v1 when the store has the /grp block,
\* v0 otherwise (no v0 frame carries a calibration map).
FormatReader(store) ==
    IF "grp" \in store.keys
    THEN process_format_v1(store)
    ELSE LET r == process_format_v0(store)
         IN  [ok |-> r.ok, raised |-> FALSE, dfs |-> r.dfs, names |-> r.names,
              fscale |-> NoFscale]

(***************************************************************************)
(* read_data on a raw (merged) file: the trip aligner and the channel      *)
(* deriver.                                                                *)
(***************************************************************************)
\* Python's None and empty string, and a value that is there.
EmptyStr == <<>>
Some(x) == <<x>>

\* npermit_names
npermit_names == <<"BCM4_NPERMIT", "BCM5_NPERMIT", "BCM5_NPERMIT">>

\* The messages read_data logs as errors.
ErrReading == "Error reading data."
ErrNoPermit == "No NPERMIT signals, cannot figure out T trip."
ErrNoHighBit == "No high bit signals in NPERMITs, cannot figure out T trip."

\* The position (0-based) of instant t in the index of df, and the instant
\* at position p.
PosOf(df, t) == Cardinality({x \in df.idx : x < t})
IndexAt(df, p) == CHOOSE t \in df.idx : PosOf(df, t) = p

\* df[c].sum(): the missing values are skipped.
RECURSIVE SumOf(_, _, _)
SumOf(df, c, rows) ==
    IF rows = {} THEN 0
    ELSE LET t == CHOOSE x \in rows : TRUE
             v == df.val[<<c, t>>]
         IN  (IF v = NaN THEN 0 ELSE v) + SumOf(df, c, rows \ {t})

\* (df[c] == 1.0).argmax(): the position of the first row that equals 1,
\* and 0 when no row does.
ArgMaxHigh(df, c) ==
    LET high == {t \in df.idx : df.val[<<c, t>>] = 1}
    IN  IF high = {} THEN 0
        ELSE PosOf(df, CHOOSE t \in high : \A u \in high : t <= u)

\* The bound of a Python slice over n rows: a negative bound counts from the
\* end, and a bound outside the rows stops at the nearest end.
SliceBound(a, n) ==
    IF a < 0 THEN (IF n + a < 0 THEN 0 ELSE n + a)
    ELSE (IF a > n THEN n ELSE a)

\* df.iloc[a:b, :]: the rows at the positions of the slice.
ILoc_inclusive(df, a, b) ==
    LET n == Cardinality(df.idx)
        rows == {t \in df.idx : /\ SliceBound(a, n) <= PosOf(df, t)
                                /\ PosOf(df, t) <= SliceBound(b, n)}
    IN  [idx |-> rows, cols |-> df.cols,
         val |-> [x \in df.cols \X rows |-> df.val[x]]]

ILoc(df, a, b) ==
    LET n == Cardinality(df.idx)
        rows == {t \in df.idx : /\ SliceBound(a, n) <= PosOf(df, t)
                                /\ PosOf(df, t) < SliceBound(b, n)}
    IN  [idx |-> rows, cols |-> df.cols,
         val |-> [x \in df.cols \X rows |-> df.val[x]]]

\* df[name] = column, a value for each row.
WithColumn(df, name, column) ==
    [idx |-> df.idx, cols |-> df.cols \cup {name},
     val |-> [x \in (df.cols \cup {name}) \X df.idx |->
                IF x[1] = name THEN column[x[2]] ELSE df.val[x]]]

\* df.drop(columns=drop) and df.pop(c) for each c of drop; first, DropColumns
\* leaving every column in place.
DropColumns_kept(df, drop) == df

DropColumns(df, drop) == Select(df, df.cols \ drop)

\* The candidates of npermit_names that are columns of df_all, in the order
\* the loop meets them: sum() is computed for each.
PresentCandidates(df_all) == SelectSeq(npermit_names, LAMBDA c : c \in df_all.cols)

\* The loop over npermit_names taking any candidate that is a column,
\* whatever its sum.
WinningPermit_present(df_all) ==
    LET high == PresentCandidates(df_all)
    IN  IF high = <<>> THEN None ELSE Some(high[Len(high)])

\* npermit_col after the loop over npermit_names: each candidate that is a
\* column and whose sum is not 0 is assigned in turn, and the loop goes on.
WinningPermit(df_all) ==
    LET high == SelectSeq(PresentCandidates(df_all),
                          LAMBDA c : SumOf(df_all, c, df_all.idx) # 0)
    IN  IF high = <<>> THEN None ELSE Some(high[Len(high)])

\* all(i not in df_all for i in npermit_names), and the same test passing
\* for every table.
NoPermitColumn_never(df_all) == FALSE

NoPermitColumn(df_all) == \A i \in DOMAIN npermit_names : npermit_names[i] \notin df_all.cols

\* (df.index - t0_val) / pd.Timedelta(1, "us"), and the same counted in
\* rows from the first row.
TUs_rows(df, t0_val) == [t \in df.idx |-> PosOf(df, t)]

TUs(df, t0_val) == [t \in df.idx |-> t - t0_val]

\* exp(-1j * phai * 2 * pi / 180) for the phases of the model, 0 and 90
\* degrees, as <<real part, imaginary part>>.  The imaginary part is counted
\* in units of sin(pi) as floating point has it (1.22e-16): exp(-1j * pi) is
\* -1 - 1.22e-16j.  First, the two phasors taken for each other.
Phasor_swapped(phai) ==
    CASE phai = 0 -> <<-1, -1>>
      [] phai = 90 -> <<1, 0>>

Phasor(phai) ==
    CASE phai = 0 -> <<1, 0>>
      [] phai = 90 -> <<-1, -1>>

\* cmpl after the loop over the first i components of name in the row at
\* instant t.
RECURSIVE CplxSum(_, _, _, _)
CplxSum(df, t, name, i) ==
    IF i = 0 THEN <<0, 0>>
    ELSE LET rest == CplxSum(df, t, name, i - 1)
             magi == df.val[<<MagColumn(name, i), t>>]
             phai == df.val[<<PhaColumn(name, i), t>>]
         IN  <<rest[1] + magi * Phasor(phai)[1], rest[2] + magi * Phasor(phai)[2]>>

\* abs(cmpl) to the nearest unit: the imaginary part is below 1e-15.
CplxAbs(cmpl) == IF cmpl[1] < 0 THEN 0 - cmpl[1] ELSE cmpl[1]

\* cmath.phase(cmpl) * 90 / pi to the nearest degree (exactly 0 for a real
\* part that is not negative and no imaginary part).
CplxPhase(cmpl) ==
    CASE cmpl[1] > 0 -> 0
      [] cmpl[1] < 0 -> (IF cmpl[2] < 0 THEN 0 - 90 ELSE 90)
      [] OTHER -> (IF cmpl[2] < 0 THEN 0 - 45 ELSE IF cmpl[2] > 0 THEN 45 ELSE 0)

\* process_bpm_cplx for one name and the row at instant t: <<abs(cmpl),
\* phase(cmpl) * 90 / pi>>, the four components summed; NaN when a
\* component is missing in the row.
process_bpm_cplx(df, t, name) ==
    IF \E i \in 1..4 : \/ df.val[<<MagColumn(name, i), t>>] = NaN
                       \/ df.val[<<PhaColumn(name, i), t>>] = NaN
    THEN <<NaN, NaN>>
    ELSE LET cmpl == CplxSum(df, t, name, 4)
         IN  <<CplxAbs(cmpl), CplxPhase(cmpl)>>

\* Every row has the eight component columns of every name.
HasComponents(df, names) ==
    \A name \in names : \A i \in 1..4 :
        MagColumn(name, i) \in df.cols /\ PhaColumn(name, i) \in df.cols

RECURSIVE WithPhasors(_, _, _)
WithPhasors(df, src, names) ==
    IF names = {} THEN df
    ELSE LET name == CHOOSE x \in names : TRUE
             d1 == WithColumn(df, MagName(name),
                              [t \in df.idx |-> process_bpm_cplx(src, t, name)[1]])
             d2 == WithColumn(d1, PhaName(name),
                              [t \in df.idx |-> process_bpm_cplx(src, t, name)[2]])
         IN  WithPhasors(d2, src, names \ {name})

\* The seven pairs of _generate_dbcm_inplace.
DbcmPairs ==
    { <<"DBCM_LS1TRANS", "BCM_D1120", "BCM_D2183">>,
      <<"DBCM_CHRGSTAT", "BCM_D2183", "BCM_D2264">>,
      <<"DBCM_STRPEFF", "BCM_D2264", "BCM_D2519">>,
      <<"DBCM_LS2TRANS", "BCM_D2675", "BCM_D3936">>,
      <<"DBCM_LS3TRANS", "BCM_D4169", "BCM_D5521">>,
      <<"DBCM_LINACBDS", "BCM_D1120c", "BCM_D5521">>,
      <<"DBCM_LINACTGT", "BCM_D1120c", "BCM_D5789">> }

\* The names whose scale factor _generate_dbcm_inplace looks up (f1..f9 and
\* f1c): a map without one of them raises KeyError.
DbcmInputs == BcmNames \ {"BCM_D0989"}

HasScales(bcm_fscale_map) ==
    \A n \in DbcmInputs : BCM_FSCALE_NAME_MAP(n) \in DOMAIN bcm_fscale_map

\* The scaled waveform s = df[n] * f at instant t; first, the waveform taken
\* without its scale factor.
Scaled_unscaled(df, bcm_fscale_map, n, t) == df.val[<<n, t>>]

Scaled(df, bcm_fscale_map, n, t) ==
    IF df.val[<<n, t>>] = NaN THEN NaN
    ELSE df.val[<<n, t>>] * bcm_fscale_map[BCM_FSCALE_NAME_MAP(n)]

RECURSIVE generate_dbcm_inplace(_, _, _, _)
generate_dbcm_inplace(df, dfc, bcm_fscale_map, pairs) ==
    IF pairs = {} THEN df
    ELSE LET p == CHOOSE x \in pairs : TRUE
             d1 == IF p[2] \in dfc.cols /\ p[3] \in dfc.cols
                   THEN WithColumn(df, p[1],
                            [t \in df.idx |->
                                LET a == Scaled(dfc, bcm_fscale_map, p[2], t)
                                    b == Scaled(dfc, bcm_fscale_map, p[3], t)
                                IN  IF a = NaN \/ b = NaN THEN NaN ELSE a - b])
                   ELSE df
         IN  generate_dbcm_inplace(d1, dfc, bcm_fscale_map, pairs \ {p})

\* What read_data has when it returns (None, ""), and the locals of a call
\* that has not begun.
NoneReturned == [df |-> None, t0 |-> EmptyStr, attrs |-> NoFscale]

\* Lines 205-241 of read_data for the frames dfs and the window t_range:
\* where the call goes next ("raised", "done" with (None, "") returned, or
\* "derive"), the error logged, the candidates whose sum was computed,
\* npermit_col, t0_idx, t0_str, df_all and df.
Align(dfs, t_range) ==
    LET df_all == Concat(dfs)
        npermit_col == WinningPermit(df_all)
        t0_idx == ArgMaxHigh(df_all, npermit_col[1])
        popped == DropColumns(df_all, {c \in Range(npermit_names) : c # npermit_col[1]})
        t0_val == IndexAt(popped, t0_idx)
        df == IF t_range # None
              THEN ILoc(popped, t0_idx + t_range[1], t0_idx + t_range[2])
              ELSE popped
        stop == [pc |-> "done", log |-> <<>>, checked |-> <<>>, npermit_col |-> None,
                 t0_idx |-> 0, t0_str |-> EmptyStr, df_all |-> EmptyTable,
                 df |-> EmptyTable]
    IN  IF dfs = <<>>
        THEN [stop EXCEPT !.pc = "raised"]      \* No objects to concatenate
        ELSE IF NoPermitColumn(df_all)
        THEN [stop EXCEPT !.log = <<ErrNoPermit>>, !.df_all = df_all]
        ELSE IF npermit_col = None
        THEN [stop EXCEPT !.log = <<ErrNoHighBit>>, !.df_all = df_all,
                          !.checked = PresentCandidates(df_all)]
        ELSE [pc |-> "derive", log |-> <<>>,
              checked |-> PresentCandidates(df_all),
              npermit_col |-> npermit_col, t0_idx |-> t0_idx,
              t0_str |-> Some(IsoFormat(t0_val)), df_all |-> popped,
              df |-> WithColumn(df, "t_us", TUs(df, t0_val))]

\* Lines 195-203: the store is opened and read by the format reader.
ReadOpen ==
    /\ ra_pc = "call"
    /\ LET r == FormatReader(ra_store)
       IN  /\ ra_dfs' = r
           /\ ra_pc' = IF r.raised THEN "raised" ELSE IF r.ok THEN "align" ELSE "done"
           /\ ra_log' = IF ~r.raised /\ ~r.ok THEN Append(ra_log, ErrReading)
                        ELSE ra_log
    /\ UNCHANGED <<ra_store, ra_t_range, ra_df_all, ra_df, ra_checked,
                   ra_npermit_col, ra_t0_idx, ra_t0_str, ra_ret,
                   rp_vars, mt_vars, rd_vars, xp_vars, cv_vars, vw_vars>>

\* Lines 205-241: the trip aligner.
ReadAlign ==
    /\ ra_pc = "align"
    /\ LET a == Align(ra_dfs.dfs, ra_t_range)
       IN  /\ ra_pc' = a.pc
           /\ ra_log' = ra_log \o a.log
           /\ ra_checked' = a.checked
           /\ ra_npermit_col' = a.npermit_col
           /\ ra_t0_idx' = a.t0_idx
           /\ ra_t0_str' = a.t0_str
           /\ ra_df_all' = a.df_all
           /\ ra_df' = a.df
    /\ UNCHANGED <<ra_store, ra_t_range, ra_dfs, ra_ret, rp_vars, mt_vars, rd_vars, xp_vars, cv_vars, vw_vars>>

\* Lines 243-265 for the table df: [raised, df].  DataFrame.apply does not
\* call process_bpm_cplx on a table without rows and gives an empty result,
\* which cannot be assigned to the new columns (ValueError); a row without
\* one of the component columns raises KeyError, and so does a calibration
\* map without one of the scale factors.
Derive(df, bpm_names, bcm_fscale_map) ==
    LET raises == \/ bpm_names # {} /\ df.idx = {}
                  \/ ~HasComponents(df, bpm_names)
                  \/ bcm_fscale_map.present /\ ~HasScales(bcm_fscale_map.map)
        d1 == DropColumns(WithPhasors(df, df, bpm_names),
                          {c \in df.cols : IsBpmComponent(c)})
        d2 == IF bcm_fscale_map.present
              THEN generate_dbcm_inplace(d1, d1, bcm_fscale_map.map, DbcmPairs)
              ELSE d1
    IN  IF raises THEN [raised |-> TRUE, df |-> df]
        ELSE [raised |-> FALSE, df |-> d2]

\* Lines 243-268: the channel deriver, and the return of the table.
ReadDerive ==
    /\ ra_pc = "derive"
    /\ LET d == Derive(ra_df, ra_dfs.names, ra_dfs.fscale)
       IN  IF d.raised
           THEN /\ ra_pc' = "raised"
                /\ UNCHANGED <<ra_df, ra_ret>>
           ELSE /\ ra_pc' = "done"
                /\ ra_df' = d.df
                /\ ra_ret' = [df |-> Some(d.df), t0 |-> ra_t0_str,
                              attrs |-> ra_dfs.fscale]
    /\ UNCHANGED <<ra_store, ra_t_range, ra_dfs, ra_df_all, ra_checked,
                   ra_npermit_col, ra_t0_idx, ra_t0_str, ra_log,
                   rp_vars, mt_vars, rd_vars, xp_vars, cv_vars, vw_vars>>

\* What read_data(filepath, t_range) on a raw file does with the results r
\* of the format reader, a of the aligner and d of the deriver:
\* [raised, df, t0, attrs].
read_data(r, a, d) ==
    LET none == [raised |-> FALSE, df |-> None, t0 |-> EmptyStr, attrs |-> NoFscale]
    IN  IF r.raised THEN [none EXCEPT !.raised = TRUE]
        ELSE IF ~r.ok THEN none
        ELSE IF a.pc = "raised" THEN [none EXCEPT !.raised = TRUE]
        ELSE IF a.pc = "done" THEN none
        ELSE IF d.raised THEN [none EXCEPT !.raised = TRUE]
        ELSE [raised |-> FALSE, df |-> Some(d.df), t0 |-> a.t0_str,
              attrs |-> r.fscale]

(***************************************************************************)
(* The optimized file: _export_df_as_h5 and read_data(is_opt=True).  An    *)
(* optimized file is [exists, blocks, t_start, t_zero, fscale_json]: the    *)
(* tables put under the four keys, the two attributes of the TimeWindow    *)
(* block and the attribute of the BCM block.                               *)
(***************************************************************************)
\* 'BCM' in c
HasBCM(c) ==
    \/ c \in BcmNames
    \/ HasNPERMIT(c)
    \/ \E p \in DbcmPairs : p[1] = c

\* The keys of an optimized file, in the order store.keys() lists them.
OptKeys == <<"BCM", "BPM_MAG", "BPM_PHA", "TimeWindow">>

NoOptFile ==
    [exists |-> FALSE, blocks |-> <<>>, t_start |-> EmptyStr, t_zero |-> EmptyStr,
     fscale_json |-> None]

\* json.dumps of a map of scale factors: the text is kept as the set of its
\* "key": value members; json.loads gives the map back from the members.
JsonDumps(map) == {<<k, map[k]>> : k \in DOMAIN map}
JsonLoads(text) ==
    [k \in {m[1] : m \in text} |-> (CHOOSE m \in text : m[1] = k)[2]]

\* The rows of df whose t_us is 0.
ZeroRows(df) == {t \in df.idx : df.val[<<"t_us", t>>] = 0}

\* The first instant of an index.
FirstOf(idx) == CHOOSE t \in idx : \A u \in idx : t <= u

\* The column test of df_t_us, df_bcm, df_bpm_mag and df_bpm_pha for a key.
BlockColumn(k, c) ==
    CASE k = "TimeWindow" -> c = "t_us"
      [] k = "BCM" -> HasBCM(c)
      [] k = "BPM_MAG" -> HasMAG(c)
      [] k = "BPM_PHA" -> HasPHA(c)

\* _export_df_as_h5(df, out_filepath): [raised, file].  The four tables are
\* put first; df.index[0] of a table without rows and index[0] of the rows
\* with t_us == 0 when there is none raise IndexError, and leave the file
\* with its tables and without the attributes not yet set.
export_df_as_h5(df, attrs) ==
    LET blocks == [k \in Range(OptKeys) |->
                      Select(df, {c \in df.cols : BlockColumn(k, c)})]
        put == [exists |-> TRUE, blocks |-> blocks, t_start |-> EmptyStr,
                t_zero |-> EmptyStr, fscale_json |-> None]
    IN  IF df.idx = {}
        THEN [raised |-> TRUE, file |-> put]
        ELSE IF ZeroRows(df) = {}
        THEN [raised |-> TRUE,
              file |-> [put EXCEPT !.t_start = Some(IsoFormat(FirstOf(df.idx)))]]
        ELSE [raised |-> FALSE,
              file |-> [put EXCEPT
                          !.t_start = Some(IsoFormat(FirstOf(df.idx))),
                          !.t_zero = Some(IsoFormat(FirstOf(ZeroRows(df)))),
                          !.fscale_json = IF attrs.present
                                          THEN Some(JsonDumps(attrs.map))
                                          ELSE None]]

\* (df_all["t_us"] == 0.0).argmax()
ArgMaxZero(df) ==
    IF ZeroRows(df) = {} THEN 0 ELSE PosOf(df, FirstOf(ZeroRows(df)))

\* read_data(filepath, t_range, is_opt=True): [raised, df, t0, attrs].  A
\* file that is not there cannot be opened, and a TimeWindow block without
\* the t_zero attribute raises AttributeError.
read_data_opt(file, t_range) ==
    LET bcm_fscale_map == IF file.fscale_json # None
                          THEN [present |-> TRUE,
                                map |-> JsonLoads(file.fscale_json[1])]
                          ELSE NoFscale
        df_all == Concat([i \in DOMAIN OptKeys |-> file.blocks[OptKeys[i]]])
        t0_idx == ArgMaxZero(df_all)
    IN  IF ~file.exists \/ file.t_zero = EmptyStr
        THEN [raised |-> TRUE, df |-> None, t0 |-> EmptyStr, attrs |-> NoFscale]
        ELSE [raised |-> FALSE,
              df |-> Some(IF t_range # None
                          THEN ILoc(df_all, t0_idx + t_range[1], t0_idx + t_range[2])
                          ELSE df_all),
              t0 |-> file.t_zero,
              attrs |-> bcm_fscale_map]

\* The table read_data returned is exported as an optimized file.
ExportH5 ==
    /\ ra_pc = "done"
    /\ ra_ret.df # None
    /\ xp_pc = "idle"
    /\ LET r == export_df_as_h5(ra_ret.df[1], ra_ret.attrs)
       IN  /\ xp_file' = r.file
           /\ xp_pc' = IF r.raised THEN "raised" ELSE "exported"
    /\ UNCHANGED <<xp_ret, rp_vars, mt_vars, rd_vars, ra_vars, cv_vars, vw_vars>>

\* The optimized file is read back whole: read_data(is_opt=True,
\* t_range=None).
ReadOptimized ==
    /\ xp_pc = "exported"
    /\ LET r == read_data_opt(xp_file, None)
       IN  /\ xp_ret' = [df |-> r.df, t0 |-> r.t0, attrs |-> r.attrs]
           /\ xp_pc' = IF r.raised THEN "raised" ELSE "read"
    /\ UNCHANGED <<xp_file, rp_vars, mt_vars, rd_vars, ra_vars, cv_vars, vw_vars>>

(***************************************************************************)
(* convert_tool and export_df.  A file of the output directory is          *)
(* [exists, old, h5, df, attrs]: old tells a file that was there before    *)
(* the batch; h5 is the optimized file of an .h5 output, df and attrs the   *)
(* table and the calibration map written to a .csv, .mat or .xlsx output.   *)
(***************************************************************************)
\* The most paths given to a convert batch.
MaxInputs == 2

\* _suppored_fmts, in sorted order.
SupportedFmts == <<"csv", "h5", "mat", "xlsx">>

\* sorted(set(i.lower() for i in args.fmts))
SortedFmts(fmts) == SelectSeq(SupportedFmts, LAMBDA f : f \in fmts)

NoOut ==
    [exists |-> FALSE, old |-> FALSE, h5 |-> NoOptFile, df |-> EmptyTable,
     attrs |-> NoFscale]

OldOut == [NoOut EXCEPT !.exists = TRUE, !.old = TRUE]

\* The writer is called for a format unless its file is there and overwrite
\* is not set; first, a test that lets the writer be called always.
ShouldWrite_always(is_file, overwrite) == TRUE

ShouldWrite(is_file, overwrite) == ~is_file \/ overwrite

\* c.replace("-", "_")
MatName(c) ==
    CASE c = "BPM_D2212-MAG" -> "BPM_D2212_MAG"
      [] c = "BPM_D2212-PHA" -> "BPM_D2212_PHA"
      [] OTHER -> c

\* df.rename(lambda c: c.replace("-", "_"), axis=1)
MatRename(df) ==
    [idx |-> df.idx, cols |-> {MatName(c) : c \in df.cols},
     val |-> [x \in {MatName(c) : c \in df.cols} \X df.idx |->
                df.val[<<CHOOSE c \in df.cols : MatName(c) = x[1], x[2]>>]]]

\* df[["time_sec", "time_usec"]] = ... of _export_df_as_xlsx.
WithTimeColumns(df) ==
    WithColumn(WithColumn(df, "time_sec", [t \in df.idx |-> t \div 1000000]),
               "time_usec", [t \in df.idx |-> t % 1000000])

\* The writer of format fmt called on df: [raised, file, df], df being the
\* table as the writer leaves it to the caller.  The .mat writer needs the
\* first row and the row with t_us == 0 (IndexError without), the .xlsx
\* writer cannot assign its two time columns to a table without rows
\* (ValueError) and adds them to the caller's table otherwise.
Writer(fmt, df, attrs) ==
    LET written == [NoOut EXCEPT !.exists = TRUE]
    IN  CASE fmt = "csv" ->
                [raised |-> FALSE, df |-> df,
                 file |-> [written EXCEPT !.df = df]]
          [] fmt = "h5" ->
                LET r == export_df_as_h5(df, attrs)
                IN  [raised |-> r.raised, df |-> df,
                     file |-> [written EXCEPT !.h5 = r.file]]
          [] fmt = "mat" ->
                IF df.idx = {} \/ ZeroRows(df) = {}
                THEN [raised |-> TRUE, df |-> df, file |-> NoOut]
                ELSE [raised |-> FALSE, df |-> df,
                      file |-> [written EXCEPT !.df = MatRename(df)]]
          [] fmt = "xlsx" ->
                IF df.idx = {}
                THEN [raised |-> TRUE, df |-> df, file |-> NoOut]
                ELSE [raised |-> FALSE, df |-> WithTimeColumns(df),
                      file |-> [written EXCEPT !.df = WithTimeColumns(df),
                                               !.attrs = attrs]]

\* export_df(df, outdir, out_filename, out_formats, overwrite), called with
\* the sorted formats of convert_tool: [raised, out, tried], out being the
\* files <out_filename>.<fmt> and tried the formats whose writer was
\* called.  The loop calls the writer of each format that ShouldWrite, in
\* order; the writer of a format of broken raises before it writes (the file
\* cannot be created, or the engine of the format is not installed), and
\* the first exception of a writer leaves export_df.  The one writer that
\* changes df, that of .xlsx, is the last of the sorted formats.
export_df(df, attrs, out, out_formats, overwrite, broken) ==
    LET called == {k \in DOMAIN out_formats :
                      ShouldWrite(out[out_formats[k]].exists, overwrite)}
        failing == {k \in called :
                      \/ out_formats[k] \in broken
                      \/ Writer(out_formats[k], df, attrs).raised}
        stop == IF failing = {} THEN Len(out_formats) + 1
                ELSE CHOOSE k \in failing : \A j \in failing : k <= j
        done == {out_formats[k] : k \in {j \in called : j < stop}}
        left == IF failing # {} /\ out_formats[stop] \notin broken
                   /\ Writer(out_formats[stop], df, attrs).file.exists
                THEN {out_formats[stop]} ELSE {}
    IN  [raised |-> failing # {},
         out |-> [f \in DOMAIN out |->
                    IF f \in done \cup left THEN Writer(f, df, attrs).file
                    ELSE out[f]],
         tried |-> {out_formats[k] : k \in {j \in called : j <= stop}}]

\* export_df when read_data returned no table: it is not called.
NoExport == [raised |-> FALSE, out |-> <<>>, tried |-> {}]

\* The outcomes of an iteration of the loop over the paths.
LogNone == "not reached"
LogExisting == "Skip existing"
LogSkip == "Skip processing"
LogExported == "Exporting"
LogReadRaised == "read_data raised"
LogExportRaised == "export_df raised"

\* One iteration of the loop of convert_tool (lines 156-181) for the path at
\* position i.
ConvertFile ==
    /\ cv_pc = "loop"
    /\ cv_todo # <<>>
    /\ LET i == Head(cv_todo)
           mine == [f \in Range(SupportedFmts) |-> cv_out[<<i, f>>]]
           out_filepaths == SelectSeq(cv_fmts,
                               LAMBDA f : ShouldWrite(mine[f].exists, cv_overwrite))
       IN  \E r \in {FormatReader(cv_files[i])} :
           \E a \in {Align(r.dfs, cv_t_range)} :
           \E d \in {Derive(a.df, r.names, r.fscale)} :
           \E ret \in {read_data(r, a, d)} :
           \E e \in {IF ret.df = None THEN NoExport
                     ELSE export_df(ret.df[1], ret.attrs, mine, cv_fmts,
                                    cv_overwrite, cv_broken)} :
              LET outcome == IF out_filepaths = <<>> THEN LogExisting
                             ELSE IF ret.raised THEN LogReadRaised
                             ELSE IF ret.df = None THEN LogSkip
                             ELSE IF e.raised THEN LogExportRaised
                             ELSE LogExported
              IN  /\ cv_log' = [cv_log EXCEPT ![i] = outcome]
                  /\ cv_todo' = Tail(cv_todo)
                  /\ cv_read' = IF outcome = LogExisting THEN cv_read
                                ELSE cv_read \cup {i}
                  /\ cv_pc' = IF outcome \in {LogReadRaised, LogExportRaised}
                              THEN "raised" ELSE "loop"
                  /\ IF outcome \in {LogExported, LogExportRaised}
                     THEN /\ cv_out' = [x \in DOMAIN cv_out |->
                                          IF x[1] = i THEN e.out[x[2]] ELSE cv_out[x]]
                          /\ cv_tried' = cv_tried \cup {<<i, f>> : f \in e.tried}
                     ELSE UNCHANGED <<cv_out, cv_tried>>
    /\ UNCHANGED <<cv_files, cv_fmts, cv_overwrite, cv_t_range, cv_broken,
                   rp_vars, mt_vars, rd_vars, ra_vars, xp_vars, vw_vars>>

\* The loop over the paths is exhausted: convert_tool returns.
ConvertEnd ==
    /\ cv_pc = "loop"
    /\ cv_todo = <<>>
    /\ cv_pc' = "done"
    /\ UNCHANGED <<cv_files, cv_fmts, cv_overwrite, cv_t_range, cv_broken, cv_todo,
                   cv_out, cv_log, cv_read, cv_tried,
                   rp_vars, mt_vars, rd_vars, ra_vars, xp_vars, vw_vars>>

(***************************************************************************)
(* The viewer: find_data_path, find_image_path and DATA_PATH_CACHE.  A     *)
(* file under the data or image directories is [ftid, kind]: its name is   *)
(* the decimal digits of the fault ID it was made for, followed by ".h5"   *)
(* (kind "raw"), "_opt.h5" (kind "opt") or "_opt.png" (kind "png").        *)
(***************************************************************************)
\* The fault IDs of the rows of the table.
ViewerFaultIds == {3355, 33355}

ViewerKinds == {"raw", "opt", "png"}

ViewerFiles == [ftid : ViewerFaultIds, kind : ViewerKinds]

\* The sequence s ends with the sequence t.
EndsWith(s, t) ==
    /\ Len(t) <= Len(s)
    /\ SubSeq(s, Len(s) - Len(t) + 1, Len(s)) = t

\* The name of pth matches the pattern f"*{ftid}<suffix of kind>".
GlobMatch(pth, ftid, kind) ==
    pth.kind = kind /\ EndsWith(Str(pth.ftid), Str(ftid))

\* k = f"{ftid}-o" if is_opt else f"{ftid}-r"
CacheKey(ftid, is_opt) == <<ftid, IF is_opt THEN "o" ELSE "r">>

\* DATA_PATH_CACHE is kept as the set of its <<key, path>> items.
CacheKeys(cache) == {e[1] : e \in cache}
CacheGet(cache, k) == (CHOOSE e \in cache : e[1] = k)[2]
CachePop(cache, ks) == {e \in cache : e[1] \notin ks}

\* The results of the last lookups, before any lookup.
NoImage == [ftid |-> None, path |-> None]
NoData == [ftid |-> None, is_opt |-> FALSE, path |-> None]

\* find_data_path(ftid, is_opt): the set of the [path, cache] it can end
\* with.  rglob yields the files in the order of the directory listing,
\* which is not defined: any matching file can be the first.
find_data_path(ftid, is_opt, cache, files) ==
    LET k == CacheKey(ftid[1], is_opt)
        found == {pth \in files :
                    GlobMatch(pth, ftid[1], IF is_opt THEN "opt" ELSE "raw")}
    IN  IF ftid = None THEN {[path |-> None, cache |-> cache]}
        ELSE IF k \in CacheKeys(cache)
        THEN {[path |-> Some(CacheGet(cache, k)), cache |-> cache]}
        ELSE IF found = {} THEN {[path |-> None, cache |-> cache]}
        ELSE {[path |-> Some(pth), cache |-> cache \cup {<<k, pth>>}] : pth \in found}

\* find_image_path(ftid): the set of the paths it can return.
find_image_path(ftid, files) ==
    LET found == {pth \in files : GlobMatch(pth, ftid, "png")}
    IN  IF found = {} THEN {None} ELSE {Some(pth) : pth \in found}

\* on_select_row: display_figure looks the image of the row up and keeps its
\* fault ID as loaded_image_ftid.
SelectRow ==
    \E ftid \in ViewerFaultIds : \E img \in find_image_path(ftid, vw_files) :
        /\ vw_ftid' = Some(ftid)
        /\ vw_img' = [ftid |-> Some(ftid), path |-> img]
        /\ UNCHANGED <<vw_files, vw_cache, vw_data,
                       rp_vars, mt_vars, rd_vars, ra_vars, xp_vars, cv_vars>>

\* on_open(is_opt): the data file of the loaded fault ID is looked up; when
\* none is found, or the file found is not there any more, both keys of the
\* fault ID are removed from the cache.  With no row loaded the lookup
\* returns None and nothing changes.
OnOpen ==
    \E is_opt \in BOOLEAN :
    \E r \in find_data_path(vw_ftid, is_opt, vw_cache, vw_files) :
        /\ vw_data' = [ftid |-> vw_ftid, is_opt |-> is_opt, path |-> r.path]
        /\ vw_cache' = IF r.path = None \/ r.path[1] \notin vw_files
                       THEN CachePop(r.cache, {CacheKey(vw_ftid[1], TRUE),
                                               CacheKey(vw_ftid[1], FALSE)})
                       ELSE r.cache
        /\ vw_ftid # None
        /\ UNCHANGED <<vw_files, vw_ftid, vw_img,
                       rp_vars, mt_vars, rd_vars, ra_vars, xp_vars, cv_vars>>

\* on_get_data(is_opt): the data file of the loaded fault ID is looked up
\* and saved.
OnGetData ==
    \E is_opt \in BOOLEAN :
    \E r \in find_data_path(vw_ftid, is_opt, vw_cache, vw_files) :
        /\ vw_ftid # None
        /\ vw_data' = [ftid |-> vw_ftid, is_opt |-> is_opt, path |-> r.path]
        /\ vw_cache' = r.cache
        /\ UNCHANGED <<vw_files, vw_ftid, vw_img,
                       rp_vars, mt_vars, rd_vars, ra_vars, xp_vars, cv_vars>>

\* on_reload: _post_refresh_table clears the cache.
OnReload ==
    /\ vw_cache' = {}
    /\ vw_cache # {}
    /\ UNCHANGED <<vw_files, vw_ftid, vw_img, vw_data,
                   rp_vars, mt_vars, rd_vars, ra_vars, xp_vars, cv_vars>>

\* A file of the directories is removed while the viewer runs.
FileRemoved ==
    \E pth \in vw_files :
        /\ vw_files' = vw_files \ {pth}
        /\ UNCHANGED <<vw_cache, vw_ftid, vw_img, vw_data,
                       rp_vars, mt_vars, rd_vars, ra_vars, xp_vars, cv_vars>>

(***************************************************************************)
(* Specifications.                                                         *)
(***************************************************************************)
SeqsUpTo(S, n) == UNION {[1..k -> S] : k \in 0..n}

MergeIdle ==
    /\ mt_pc = "idle"
    /\ mt_run = 0
    /\ mt_overwrite = FALSE
    /\ mt_todo = <<>>
    /\ mt_log = [f \in MergeFaultIds |-> "none"]
    /\ mt_before = {}
    /\ disk = [f \in MergeFaultIds |-> NoFile]
    /\ gd_ret = [f \in MergeFaultIds |-> "none"]
    /\ gd_nread = [f \in MergeFaultIds |-> 0]
    /\ rd_ftid = 0
    /\ rd_store = NoFile
    /\ rd_ret = NotRead

\* No call of read_data has begun.
ReadIdle ==
    /\ ra_pc = "idle"
    /\ ra_store = <<>>
    /\ ra_t_range = None
    /\ ra_dfs = NotReadData
    /\ ra_df_all = EmptyTable
    /\ ra_df = EmptyTable
    /\ ra_checked = <<>>
    /\ ra_npermit_col = None
    /\ ra_t0_idx = 0
    /\ ra_t0_str = EmptyStr
    /\ ra_log = <<>>
    /\ ra_ret = NoneReturned

\* No optimized file has been written or read.
ExportIdle ==
    /\ xp_pc = "idle"
    /\ xp_file = NoOptFile
    /\ xp_ret = NoneReturned

\* No convert batch has begun.
ConvertIdle ==
    /\ cv_pc = "idle"
    /\ cv_files = <<>>
    /\ cv_fmts = <<>>
    /\ cv_overwrite = FALSE
    /\ cv_t_range = None
    /\ cv_broken = {}
    /\ cv_todo = <<>>
    /\ cv_out = <<>>
    /\ cv_log = <<>>
    /\ cv_read = {}
    /\ cv_tried = {}

\* The viewer is not running.
ViewerIdle ==
    /\ vw_files = {}
    /\ vw_cache = {}
    /\ vw_ftid = None
    /\ vw_img = NoImage
    /\ vw_data = NoData

\* read_path is called on a directory of up to MaxFiles files, in either mode.
Init ==
    /\ rp_pc = "scan"
    /\ rp_allow \in BOOLEAN
    /\ rp_dir \in SeqsUpTo(FileNames, MaxFiles)
    /\ rp_todo = rp_dir
    /\ rp_records = <<>>
    /\ rp_skipped = <<>>
    /\ rp_result = <<>>
    /\ mt_rows = <<>>
    /\ MergeIdle
    /\ ReadIdle
    /\ ExportIdle
    /\ ConvertIdle
    /\ ViewerIdle

Next == ReadPathStep \/ ReadPathReturn

Spec == Init /\ [][Next]_vars

\* The instants tried for the rows of a merge: on either side of the
\* cutover, so that rows of both time references occur.
TsValues == {-1, 1}

\* The raw files tried: one that cannot be loaded, one of a single sample
\* and one of MaxSamples samples.
RawFiles ==
    {[ok |-> FALSE, n |-> 0]} \cup {[ok |-> TRUE, n |-> k] : k \in {1, MaxSamples}}

IndexRows ==
    { [ID |-> f, Name |-> d, TimeStamp |-> ts, TimeType |-> TimeTypeOf(ts, d),
       DevType |-> DevTypeOf(d), FilePath |-> raw] :
        f \in MergeFaultIds, d \in Devices, ts \in TsValues, raw \in RawFiles }

\* An index table as read_path returns it: sorted by fault ID; a device has
\* one capture per fault.
IsIndexTable(rows) ==
    /\ rows # <<>>
    /\ \A i \in 1..(Len(rows) - 1) : rows[i].ID <= rows[i + 1].ID
    /\ \A i, j \in DOMAIN rows :
          (i # j /\ rows[i].ID = rows[j].ID) => rows[i].Name # rows[j].Name

InitMerge ==
    /\ rp_pc = "done"
    /\ rp_allow = FALSE
    /\ rp_dir = <<>>
    /\ rp_todo = <<>>
    /\ rp_records = <<>>
    /\ rp_skipped = <<>>
    /\ mt_rows \in {rows \in SeqsUpTo(IndexRows, MaxRows) : IsIndexTable(rows)}
    /\ rp_result = mt_rows
    /\ MergeIdle
    /\ ReadIdle
    /\ ExportIdle
    /\ ConvertIdle
    /\ ViewerIdle

NextMerge == MergeStart \/ MergeGroup \/ MergeEnd \/ ReadV0

SpecMerge == InitMerge /\ [][NextMerge]_vars

\* The v1 files are tried with captures of two samples, and so are the v0
\* files without INFO tables.
V1Shapes ==
    {s \in Shapes : /\ s.n = 2
                    /\ s.p5 \in {<<>>, <<0, 1>>}
                    /\ s.p6 \in {<<>>, <<0, 0>>}
                    /\ s.bpm \in {"none", "same"}}

\* The defects of a v1 file: a block left out, or a group without its
\* first-sample time.
V1Defects ==
    { <<{"t0"}, {}>>, <<{"bcm"}, {}>>, <<{"bpm"}, {}>>,
      <<{}, {"BCM4"}>>, <<{}, {"D2212"}>> }

ReadFiles ==
    {SynthV0(s, TRUE) : s \in Shapes}
    \cup {SynthV0(s, FALSE) : s \in V1Shapes}
    \cup {SynthV1(s, fn, fs, {}, {}) : s \in V1Shapes, fn \in V1FileNames,
                                       fs \in Fscales}
    \cup {SynthV1(s, "20250512T100000_777.h5", NoFscale, d[1], d[2]) :
            s \in V1Shapes, d \in V1Defects}

\* The t_range arguments tried: None and windows of one to four rows around
\* the trip.
Windows == {None} \cup {<<t1, t2>> : t1 \in {-2, -1, 0}, t2 \in {1, 2}}

InitRead ==
    /\ rp_pc = "done"
    /\ rp_allow = FALSE
    /\ rp_dir = <<>>
    /\ rp_todo = <<>>
    /\ rp_records = <<>>
    /\ rp_skipped = <<>>
    /\ rp_result = <<>>
    /\ mt_rows = <<>>
    /\ MergeIdle
    /\ ra_pc = "call"
    /\ ra_store \in ReadFiles
    /\ ra_t_range \in Windows
    /\ ra_dfs = NotReadData
    /\ ra_df_all = EmptyTable
    /\ ra_df = EmptyTable
    /\ ra_checked = <<>>
    /\ ra_npermit_col = None
    /\ ra_t0_idx = 0
    /\ ra_t0_str = EmptyStr
    /\ ra_log = <<>>
    /\ ra_ret = NoneReturned
    /\ ExportIdle
    /\ ConvertIdle
    /\ ViewerIdle

NextRead == ReadOpen \/ ReadAlign \/ ReadDerive \/ ExportH5 \/ ReadOptimized

SpecRead == InitRead /\ [][NextRead]_vars

\* The largest component magnitude tried for a BPM row.
MaxMag == 2

\* The phases tried for a component, in degrees.
BpmPhases == {0, 90}

\* A v0 file of one sample of BCM4 (permit high) and of the BPM, whose
\* components have the magnitudes m and the phases ph.
BpmFile(m, ph) ==
    LET s == [n |-> 1, p4 |-> <<1>>, p5 |-> <<>>, p6 |-> <<>>, bpm |-> "same"]
        base == SynthV0(s, TRUE)
        t == FirstInstant(s, "D2212")
        mags == {MagColumn("BPM_D2212", i) : i \in 1..4}
        phas == {PhaColumn("BPM_D2212", i) : i \in 1..4}
    IN  [base EXCEPT
           !.tab = [k \in WaveKeys |->
                      CASE k = "BPM/MAG" ->
                              [idx |-> {t}, cols |-> mags,
                               val |-> [x \in mags \X {t} |->
                                          m[CHOOSE i \in 1..4 :
                                               MagColumn("BPM_D2212", i) = x[1]]]]
                        [] k = "BPM/PHA" ->
                              [idx |-> {t}, cols |-> phas,
                               val |-> [x \in phas \X {t} |->
                                          ph[CHOOSE i \in 1..4 :
                                                PhaColumn("BPM_D2212", i) = x[1]]]]
                        [] OTHER -> base.tab[k]]]

BpmFiles == {BpmFile(m, ph) : m \in [1..4 -> 0..MaxMag], ph \in [1..4 -> BpmPhases]}

\* read_data(t_range=None) is called on a file of BpmFiles.
InitBpm ==
    /\ rp_pc = "done"
    /\ rp_allow = FALSE
    /\ rp_dir = <<>>
    /\ rp_todo = <<>>
    /\ rp_records = <<>>
    /\ rp_skipped = <<>>
    /\ rp_result = <<>>
    /\ mt_rows = <<>>
    /\ MergeIdle
    /\ ra_pc = "call"
    /\ ra_store \in BpmFiles
    /\ ra_t_range = None
    /\ ra_dfs = NotReadData
    /\ ra_df_all = EmptyTable
    /\ ra_df = EmptyTable
    /\ ra_checked = <<>>
    /\ ra_npermit_col = None
    /\ ra_t0_idx = 0
    /\ ra_t0_str = EmptyStr
    /\ ra_log = <<>>
    /\ ra_ret = NoneReturned
    /\ ExportIdle
    /\ ConvertIdle
    /\ ViewerIdle

SpecBpm == InitBpm /\ [][NextRead]_vars

\* The files given to a convert batch: one with a trip in its second row
\* and a BPM, one without a high permit sample, a v1 file without its /t0
\* block, and one with the trip in its first row.
ConvertInputs ==
    { SynthV0([n |-> 2, p4 |-> <<0, 1>>, p5 |-> <<>>, p6 |-> <<>>, bpm |-> "same"], TRUE),
      SynthV0([n |-> 2, p4 |-> <<0, 0>>, p5 |-> <<>>, p6 |-> <<>>, bpm |-> "none"], TRUE),
      SynthV1([n |-> 2, p4 |-> <<0, 1>>, p5 |-> <<>>, p6 |-> <<>>, bpm |-> "none"],
              "20250512T100000_777.h5", NoFscale, {"t0"}, {}),
      SynthV0([n |-> 2, p4 |-> <<1, 1>>, p5 |-> <<>>, p6 |-> <<>>, bpm |-> "none"], TRUE) }

\* The --fmt arguments tried (none gives "mat"), the formats whose writer
\* fails, and the window.
ConvertFmts == {{"mat"}, {"csv", "h5"}, {"h5", "mat"}, {"csv", "xlsx"},
                {"csv", "h5", "mat", "xlsx"}}
ConvertBroken == {{}, {"csv"}, {"h5"}, {"xlsx"}}
ConvertWindows == {<<-1, 1>>}

\* The outputs that are there when the batch begins: none, those of the
\* first path (its .csv alone, or all four), or all of every path.
ConvertExisting(n) ==
    { {}, {<<1, "csv">>}, {<<1, f>> : f \in Range(SupportedFmts)},
      (1..n) \X Range(SupportedFmts) }

\* convert_tool has parsed its arguments and enters the loop over the
\* sorted paths.
InitConvert ==
    /\ rp_pc = "done"
    /\ rp_allow = FALSE
    /\ rp_dir = <<>>
    /\ rp_todo = <<>>
    /\ rp_records = <<>>
    /\ rp_skipped = <<>>
    /\ rp_result = <<>>
    /\ mt_rows = <<>>
    /\ MergeIdle
    /\ ReadIdle
    /\ ExportIdle
    /\ ViewerIdle
    /\ cv_pc = "loop"
    /\ cv_files \in SeqsUpTo(ConvertInputs, MaxInputs) \ {<<>>}
    /\ cv_fmts \in {SortedFmts(f) : f \in ConvertFmts}
    /\ cv_overwrite \in BOOLEAN
    /\ cv_t_range \in ConvertWindows
    /\ cv_broken \in ConvertBroken
    /\ cv_todo = [i \in 1..Len(cv_files) |-> i]
    /\ \E there \in ConvertExisting(Len(cv_files)) :
          cv_out = [x \in (1..Len(cv_files)) \X Range(SupportedFmts) |->
                      IF x \in there THEN OldOut ELSE NoOut]
    /\ cv_log = [i \in 1..Len(cv_files) |-> LogNone]
    /\ cv_read = {}
    /\ cv_tried = {}

NextConvert == ConvertFile \/ ConvertEnd

SpecConvert == InitConvert /\ [][NextConvert]_vars

\* The viewer starts on directories holding any of the files, with an empty
\* cache and no row selected.
InitViewer ==
    /\ rp_pc = "done"
    /\ rp_allow = FALSE
    /\ rp_dir = <<>>
    /\ rp_todo = <<>>
    /\ rp_records = <<>>
    /\ rp_skipped = <<>>
    /\ rp_result = <<>>
    /\ mt_rows = <<>>
    /\ MergeIdle
    /\ ReadIdle
    /\ ExportIdle
    /\ ConvertIdle
    /\ vw_files \in SUBSET ViewerFiles
    /\ vw_cache = {}
    /\ vw_ftid = None
    /\ vw_img = NoImage
    /\ vw_data = NoData

NextViewer == SelectRow \/ OnOpen \/ OnGetData \/ OnReload \/ FileRemoved

SpecViewer == InitViewer /\ [][NextViewer]_vars

(***************************************************************************)
(* Properties of the file indexer (specification Spec).                    *)
(***************************************************************************)
\* A name that follows <group>-<YYYYMMDD>T<HHMMSS>-<microseconds>, with or
\* without _<faultId>.
WellFormed(name) ==
    /\ name.shape \in {"full", "noftid"}
    /\ Ts1Ok(name.ts1)
    /\ Len(name.ts2) = 6
    /\ \A i \in DOMAIN name.ts2 : IsDigit(name.ts2[i])

Conforming(name) == name.shape = "full" /\ WellFormed(name)

DirNames == {rp_dir[i] : i \in DOMAIN rp_dir}
RowsOfName(table, name) == {i \in DOMAIN table : table[i].Filename = name}
CountInDir(name) == Cardinality({i \in DOMAIN rp_dir : rp_dir[i] = name})

\* C1: the sub-second part of the capture timestamp of every accepted file
\* is exactly the six-digit value uuuuuu of its name, in microseconds, plus
\* the group's correction from T_US_OFFSET.
C1_SubSecondIsNameMicroseconds ==
    \A i \in DOMAIN rp_records :
        LET r == rp_records[i] IN
        r.TimeStamp % 1000000 = IntVal(r.Filename.ts2) + T_US_OFFSET(r.Name)

\* C2: in permissive mode, a directory holding one well-formed file without
\* a fault ID and one with a fault ID is read without raising and yields two
\* rows: the sentinel for the first, the name's own fault ID for the second.
C2_PermissiveKeepsFaultId ==
    \A a, b \in DirNames :
        ( /\ rp_allow
          /\ rp_pc # "scan"
          /\ Len(rp_dir) = 2
          /\ WellFormed(a) /\ a.shape = "noftid"
          /\ WellFormed(b) /\ b.shape = "full" )
        => /\ rp_pc = "done"
           /\ Len(rp_result) = 2
           /\ \E i \in DOMAIN rp_result :
                rp_result[i].Filename = a /\ rp_result[i].ID = DefaultFaultId
           /\ \E i \in DOMAIN rp_result :
                rp_result[i].Filename = b /\ rp_result[i].ID = b.ftid

\* C3: in strict mode read_path never raises because of a file name; when it
\* returns, every conforming file of the directory has exactly one row, with
\* its own fault ID, and no other file has a row.
C3_StrictNeverRaises ==
    ~rp_allow =>
        /\ rp_pc # "raised"
        /\ rp_pc = "done" =>
              \A name \in DirNames :
                 /\ Cardinality(RowsOfName(rp_result, name)) =
                        (IF Conforming(name) THEN CountInDir(name) ELSE 0)
                 /\ \A i \in RowsOfName(rp_result, name) :
                        rp_result[i].ID = name.ftid

KeyOf(c) ==
    CASE HasNPERMIT(c) -> "BCM/NPERMIT"
      [] HasMAG(c) -> "BPM/MAG"
      [] HasPHA(c) -> "BPM/PHA"
      [] HasBEAMST(c) -> "BPM/BEAMST"
      [] OTHER -> "BCM/DATA"

\* The instant of sample i (0-based) of a row, from its time reference.
SampleInstant(row, i) ==
    IF row.TimeType = 0 THEN row.TimeStamp + i
    ELSE row.TimeStamp - (row.FilePath.n - 1 - i)

\* The instants at which column c of a table has a value.
InstantsOf(t, c) == {x \in t.idx : t.val[<<c, x>>] # NaN}

Minimum(S) == CHOOSE x \in S : \A y \in S : x <= y
Maximum(S) == CHOOSE x \in S : \A y \in S : x >= y
Contiguous(S) == \A x \in S : x = Maximum(S) \/ (x + 1) \in S

Written == {f \in MergeFaultIds : disk[f].closed}
SrcRows(file) == {file.src[i] : i \in DOMAIN file.src}

\* C5: with overwrite not set, a call of group_datafiles for a fault ID
\* whose file exists returns None, reads no raw file and leaves the file as
\* it is; and a second run of the merger over the same groups changes
\* nothing in the output directory.
C5_SkipExistingIdempotent ==
    [][ ( /\ mt_pc = "loop"
          /\ mt_todo # <<>>
          /\ ~mt_overwrite
          /\ (disk[Head(mt_todo)].exists \/ mt_run >= 2) )
        => /\ disk' = disk
           /\ gd_ret'[Head(mt_todo)] = "None"
           /\ gd_nread'[Head(mt_todo)] = 0
           /\ mt_log'[Head(mt_todo)] = "skipped" ]_vars

\* A second run without overwrite has skipped a group whose file the first
\* run had written from two raw files.
C5_Witness ==
    \E f \in MergeFaultIds :
        /\ mt_run = 2 /\ ~mt_overwrite
        /\ gd_ret[f] = "None"
        /\ disk[f].closed
        /\ Len(disk[f].src) = 2

\* The columns of all the frames the reader returned.
ReadColumns == UNION {rd_ret.dfs[i].cols : i \in DOMAIN rd_ret.dfs}

\* Some returned frame has column c with value v at instant t.
ReadValue(c, t, v) ==
    \E i \in DOMAIN rd_ret.dfs :
        /\ c \in rd_ret.dfs[i].cols
        /\ t \in rd_ret.dfs[i].idx
        /\ rd_ret.dfs[i].val[<<c, t>>] = v

\* C6 as claimed: the frames read back from a file group_datafiles wrote
\* hold exactly the channel names of the raw files (after the prefix strip),
\* each with the sample values of the raw file.
C6_RoundTripSameChannels ==
    (rd_ftid # 0 /\ rd_store.closed) =>
        /\ rd_ret.ok
        /\ ReadColumns =
              {StripPrefix(c) : c \in UNION {RawIndex(r.Name) : r \in SrcRows(rd_store)}}
        /\ \A r \in SrcRows(rd_store) : \A c \in RawIndex(r.Name) :
              \A i \in 0..(r.FilePath.n - 1) :
                 ReadValue(StripPrefix(c), SampleInstant(r, i), RawSample(c, i))

\* The raw channels the v0 reader returns: all of a BCM file, the magnitude
\* and phase channels of a BPM file.
ReadBack(r) ==
    {c \in RawIndex(r.Name) :
        r.DevType = "BCM" \/ HasMAG(StripPrefix(c)) \/ HasPHA(StripPrefix(c))}

\* C6 as amended: the frames read back hold exactly the BCM channels and the
\* BPM magnitude and phase channels of the raw files (after the prefix
\* strip), BCM_D1120 under the name BCM_D1120c and BCM_D2183 under the name
\* BCM_D0989, each with the sample values of the raw file; the BPM BEAMST
\* channels are not returned.
C6_RoundTripRenamedNoBeamst ==
    (rd_ftid # 0 /\ rd_store.closed) =>
        /\ rd_ret.ok
        /\ ReadColumns =
              {RenameV0(StripPrefix(c)) :
                  c \in UNION {ReadBack(r) : r \in SrcRows(rd_store)}}
        /\ \A r \in SrcRows(rd_store) : \A c \in ReadBack(r) :
              \A i \in 0..(r.FilePath.n - 1) :
                 ReadValue(RenameV0(StripPrefix(c)), SampleInstant(r, i),
                           RawSample(c, i))

\* A file merged from a BCM4 capture and a BPM capture of two samples each
\* has been read back.
C6_Witness ==
    /\ rd_ftid # 0
    /\ rd_store.closed
    /\ rd_ret.ok
    /\ \E r \in SrcRows(rd_store) : r.Name = "BCM4" /\ r.FilePath.n >= 2
    /\ \E r \in SrcRows(rd_store) : r.Name = "D2212" /\ r.FilePath.n >= 2

\* C7 as claimed: all the waveform tables of a consolidated file have the
\* same time index, with exactly 1 microsecond between consecutive rows.
C7_OneContiguousIndex ==
    \A f \in Written :
        \A k1, k2 \in disk[f].keys \cap WaveKeys :
            /\ disk[f].tab[k1].idx = disk[f].tab[k2].idx
            /\ Contiguous(disk[f].tab[k1].idx)

CategoryOf(k) == IF k \in {"BCM/DATA", "BCM/NPERMIT"} THEN "BCM" ELSE "BPM"

\* The sample instants of a row: n of them, 1 microsecond apart.
SpanOf(row) == {SampleInstant(row, i) : i \in 0..(row.FilePath.n - 1)}

\* C7 as amended: the waveform tables of one device category (BCM/DATA and
\* BCM/NPERMIT; BPM/MAG, BPM/PHA and BPM/BEAMST) have the same time index,
\* which is the union, in ascending order, of the 1-microsecond sample
\* instants of the raw files of that category; consecutive rows are 1
\* microsecond apart within one capture and further apart where the captures
\* of the category leave a gap.
C7_IndexPerCategory ==
    \A f \in Written :
        \A k \in disk[f].keys \cap WaveKeys :
            disk[f].tab[k].idx =
                UNION {SpanOf(r) : r \in {x \in SrcRows(disk[f]) :
                                            x.DevType = CategoryOf(k)}}

\* A file has been written from two BCM captures that do not overlap: its
\* BCM tables have a gap in their index.
C7_Witness ==
    \E f \in Written :
        /\ Len(disk[f].src) = 2
        /\ "BCM/DATA" \in disk[f].keys
        /\ ~Contiguous(disk[f].tab["BCM/DATA"].idx)
        /\ disk[f].tab["BCM/DATA"].idx = disk[f].tab["BCM/NPERMIT"].idx

\* C8: in a written file, sample i of every channel of a raw file of n
\* samples stands at ts + i when the row is START-anchored and at
\* ts - (n-1-i) when it is END-anchored, and the channel has n samples.
C8_SampleInstants ==
    \A f \in Written : \A r \in SrcRows(disk[f]) : \A c \in RawIndex(r.Name) :
        LET t == disk[f].tab[KeyOf(StripPrefix(c))]
            n == r.FilePath.n
        IN  /\ Cardinality(InstantsOf(t, StripPrefix(c))) = n
            /\ \A i \in 0..(n - 1) :
                  LET at == IF r.TimeType = 0 THEN r.TimeStamp + i
                            ELSE r.TimeStamp - (n - 1 - i)
                  IN  /\ at \in t.idx
                      /\ t.val[<<StripPrefix(c), at>>] = RawSample(c, i)

\* A file has been written from an END-anchored and a START-anchored raw
\* file of two samples each.
C8_Witness ==
    \E f \in Written :
        /\ \E r \in SrcRows(disk[f]) : r.TimeType = 1 /\ r.FilePath.n >= 2
        /\ \E r \in SrcRows(disk[f]) : r.TimeType = 0 /\ r.FilePath.n >= 2

\* datetime.fromisoformat of an INFO/TIME entry, in microseconds.
FromIsoFormat(e) ==
    e.seconds * 1000000 +
        (IF e.fraction = <<>> THEN 0
         ELSE IntVal(e.fraction) * Pow10(6 - Len(e.fraction)))

\* The instants of the waveform of a row, as the written file holds them.
WaveformInstants(file, r) ==
    LET c == StripPrefix(CHOOSE x \in RawIndex(r.Name) : TRUE)
    IN  InstantsOf(file.tab[KeyOf(c)], c)

\* C9 as claimed: the INFO/TIME entry of every device group is the instant
\* of the first sample of its waveform.
C9_InfoTimeIsFirstSample ==
    \A f \in Written : \A r \in SrcRows(disk[f]) :
        FromIsoFormat(disk[f].info_time[InfoName(r)]) =
            Minimum(WaveformInstants(disk[f], r))

\* C9 as amended: the INFO/TIME entry of every device group is the capture
\* timestamp of its raw file: the instant of the first sample of its
\* waveform for a START-anchored row, of the last sample for an END-anchored
\* row.
C9_InfoTimeIsCaptureTimestamp ==
    \A f \in Written : \A r \in SrcRows(disk[f]) :
        /\ FromIsoFormat(disk[f].info_time[InfoName(r)]) = r.TimeStamp
        /\ r.TimeType = 0 =>
              FromIsoFormat(disk[f].info_time[InfoName(r)]) =
                  Minimum(WaveformInstants(disk[f], r))
        /\ r.TimeType = 1 =>
              FromIsoFormat(disk[f].info_time[InfoName(r)]) =
                  Maximum(WaveformInstants(disk[f], r))

\* A file has been written from an END-anchored raw file of two samples and
\* from a START-anchored one whose timestamp has a microsecond part.
C9_Witness ==
    \E f \in Written :
        /\ \E r \in SrcRows(disk[f]) : r.TimeType = 1 /\ r.FilePath.n >= 2
        /\ \E r \in SrcRows(disk[f]) :
              r.TimeType = 0 /\ r.FilePath.n >= 2 /\ r.TimeStamp % 1000000 # 0

\* The fault IDs whose last call of group_datafiles got past the check for
\* an existing file.
Attempted == {f \in MergeFaultIds : gd_ret[f] \in {"path", "raised"}}

\* C10 as claimed: when a raw file of a fault group fails to load, the call
\* still reads the remaining files, returns the path and leaves a closed
\* file holding the channels of the files that did load.
C10_FailureCaughtInside ==
    \A f \in Attempted :
        LET grp == GroupOf(mt_rows, f) IN
        FirstUnreadable(grp) # 0 =>
            /\ gd_ret[f] = "path"
            /\ gd_nread[f] = Len(grp)
            /\ disk[f].closed
            /\ \A i \in DOMAIN grp : grp[i].FilePath.ok =>
                  \A c \in RawIndex(grp[i].Name) :
                     StripPrefix(c) \in disk[f].tab[KeyOf(StripPrefix(c))].cols

\* C10 as amended: when a raw file of a fault group fails to load, the
\* exception leaves group_datafiles: the files after it are not read, no
\* table is put into the file just created, which is not closed, and it is
\* merge_tool that logs the error and goes on to the next fault ID.
C10_FailureLeavesCall ==
    /\ \A f \in Attempted :
          LET grp == GroupOf(mt_rows, f) IN
          FirstUnreadable(grp) # 0 =>
              /\ gd_ret[f] = "raised"
              /\ gd_nread[f] = FirstUnreadable(grp)
              /\ disk[f].exists /\ ~disk[f].closed /\ disk[f].keys = {}
              /\ mt_log[f] = "error"
    /\ mt_pc = "done" =>
          \A i \in DOMAIN mt_rows : mt_log[mt_rows[i].ID] # "none"

\* A run has ended in which the first of the two raw files of a group failed
\* to load.
C10_Witness ==
    /\ mt_pc = "done"
    /\ \E f \in MergeFaultIds :
          /\ gd_ret[f] = "raised"
          /\ Len(GroupOf(mt_rows, f)) = 2
          /\ FirstUnreadable(GroupOf(mt_rows, f)) = 1

\* C11: after a merge batch, a fault ID whose group merge ended with an
\* exception and that had no consolidated file before the run has no file
\* <faultId>.h5 in the output directory (so that a later run without
\* overwrite attempts it again).
C11_FailedMergeLeavesNoFile ==
    mt_pc = "done" =>
        \A f \in MergeFaultIds :
            (mt_log[f] = "error" /\ f \notin mt_before) => ~disk[f].exists

(***************************************************************************)
(* Properties of read_data on a raw file (specification SpecRead).         *)
(***************************************************************************)
\* The format reader has returned frames and the aligner has run on them.
AlignerRan ==
    ra_pc \in {"derive", "done", "raised"} /\ ra_dfs.ok /\ ra_dfs.dfs # <<>>

\* The table the aligner starts from: the frames concatenated column-wise.
Concatenated == Concat(ra_dfs.dfs)

\* The declared permit candidates, and those that are columns of a table.
KnownCandidates == Range(npermit_names)
CandidatesIn(df) == KnownCandidates \cap df.cols

\* The rows of column c that are high, and a column without any.
HighRows(df, c) == {t \in df.idx : df.val[<<c, t>>] = 1}
AllZero(df, c) == \A t \in df.idx : df.val[<<c, t>>] \in {0, NaN}

\* The position of the first high row of column c.
FirstHigh(df, c) == PosOf(df, Minimum(HighRows(df, c)))

\* The store has a schema problem: a v1 file without its /t0, /bcm or /bpm
\* block or with a group that has no first-sample time (its frame cannot be
\* built), a v0 file without /INFO/PV.
SchemaProblem(store) ==
    IF "grp" \in store.keys
    THEN \/ ~({"t0", "bcm", "bpm"} \subseteq store.keys)
         \/ \E g \in DOMAIN store.grp : g \notin DOMAIN store.t0
    ELSE "INFO/PV" \notin store.keys

\* C12: reading a file with a schema problem never raises: the format
\* reader returns (None, None) and read_data returns (None, "").
C12_SchemaProblemNeverRaises ==
    (ra_pc \notin {"idle", "call"} /\ SchemaProblem(ra_store)) =>
        /\ ra_pc = "done"
        /\ ~ra_dfs.raised /\ ~ra_dfs.ok
        /\ ra_ret = NoneReturned

\* C13: when none of the known permit candidates is a column of the
\* concatenated table, read_data fails with the "No NPERMIT signals" error
\* and returns (None, ""); no candidate has been checked for high samples,
\* and the error is not the one of a table whose candidates have no high
\* sample.
C13_NoPermitSignalDecidedFirst ==
    (AlignerRan /\ CandidatesIn(Concatenated) = {}) =>
        /\ ra_pc = "done"
        /\ ra_ret = NoneReturned
        /\ ra_log = <<ErrNoPermit>>
        /\ ra_log # <<ErrNoHighBit>>
        /\ ra_checked = <<>>

\* read_data has ended on a table with columns, none of them a candidate.
C13_Witness ==
    /\ ra_pc = "done"
    /\ ra_log = <<ErrNoPermit>>
    /\ ra_df_all.cols # {}
    /\ CandidatesIn(ra_df_all) = {}

\* C14: when at least one permit candidate is a column and every candidate
\* that is a column has no high sample, read_data fails with the "No high
\* bit signals" error: it returns (None, ""), computes no trip time and
\* builds no table.
C14_AllZeroIsNoTripDetected ==
    ( /\ AlignerRan
      /\ CandidatesIn(Concatenated) # {}
      /\ \A c \in CandidatesIn(Concatenated) : AllZero(Concatenated, c) )
    => /\ ra_pc = "done"
       /\ ra_ret = NoneReturned
       /\ ra_log = <<ErrNoHighBit>>
       /\ ra_npermit_col = None
       /\ ra_t0_str = EmptyStr
       /\ ra_df = EmptyTable

\* read_data has ended on a table with both candidates, each all-zero, over
\* two rows or more.
C14_Witness ==
    /\ ra_pc = "done"
    /\ ra_log = <<ErrNoHighBit>>
    /\ CandidatesIn(ra_df_all) = {"BCM4_NPERMIT", "BCM5_NPERMIT"}
    /\ Cardinality(ra_df_all.idx) >= 2

\* C15: when two or more permit candidates are columns and each has a high
\* sample, the aligner takes the first of them in the declared order as the
\* winning permit channel, and the trip row is the first high row of that
\* candidate.
C15_FirstHighCandidateWins ==
    ( /\ AlignerRan
      /\ Cardinality(CandidatesIn(Concatenated)) >= 2
      /\ \A c \in CandidatesIn(Concatenated) : ~AllZero(Concatenated, c) )
    => LET first == PresentCandidates(Concatenated)[1]
       IN  /\ ra_npermit_col = Some(first)
           /\ ra_t0_idx = FirstHigh(Concatenated, first)

\* C16: when two permit candidates are both columns and exactly one of them
\* has a high sample, the aligner takes that one, whichever comes first in
\* the declared order, and removes the other column from the table.
C16_OnlyNonZeroCandidateWins ==
    \A c, d \in KnownCandidates :
        ( /\ AlignerRan
          /\ c # d
          /\ {c, d} \subseteq Concatenated.cols
          /\ ~AllZero(Concatenated, c)
          /\ AllZero(Concatenated, d) )
        => /\ ra_npermit_col = Some(c)
           /\ c \in ra_df.cols /\ d \notin ra_df.cols
           /\ c \in ra_df_all.cols /\ d \notin ra_df_all.cols
           /\ ra_pc = "done" => ra_ret.df = Some(ra_df)

\* read_data has returned a table read from a file in which the first
\* candidate has a high sample and the second has none.
C16_Witness ==
    /\ ra_pc = "done"
    /\ ra_ret.df # None
    /\ ra_npermit_col = Some("BCM4_NPERMIT")
    /\ "BCM5_NPERMIT" \in Concatenated.cols
    /\ "BCM5_NPERMIT" \notin ra_ret.df[1].cols

\* C17: every table read_data returns has exactly one permit column, the
\* winning permit channel.
C17_ExactlyOnePermitColumn ==
    (ra_pc = "done" /\ ra_ret.df # None) =>
        {c \in ra_ret.df[1].cols : HasNPERMIT(c)} = {ra_npermit_col[1]}

\* Exactly one permit candidate of the concatenated table has a high sample.
OneCandidateHigh ==
    Cardinality({c \in CandidatesIn(Concatenated) : ~AllZero(Concatenated, c)}) = 1

\* C18: for a table with a gap-free 1-microsecond index in which exactly one
\* permit candidate goes high, first at row k, read_data without a window
\* keeps every row, t_us is the row position minus k (0 at row k, one more
\* at each row) and the trip-time string is the timestamp of row k.
C18_TripRowIsZero ==
    ( /\ AlignerRan
      /\ ra_t_range = None
      /\ Contiguous(Concatenated.idx)
      /\ OneCandidateHigh )
    => LET c == CHOOSE x \in CandidatesIn(Concatenated) : ~AllZero(Concatenated, x)
           k == FirstHigh(Concatenated, c)
       IN  /\ ra_npermit_col = Some(c)
           /\ ra_df.idx = Concatenated.idx
           /\ "t_us" \in ra_df.cols
           /\ \A t \in ra_df.idx :
                 ra_df.val[<<"t_us", t>>] = PosOf(Concatenated, t) - k
           /\ ra_t0_str = Some(IsoFormat(IndexAt(Concatenated, k)))
           /\ ra_pc = "done" => (ra_ret.df = Some(ra_df) /\ ra_ret.t0 = ra_t0_str)

\* read_data without a window has returned a gap-free table of three rows or
\* more whose trip row is not the first.
C18_Witness ==
    /\ ra_pc = "done"
    /\ ra_ret.df # None
    /\ ra_t_range = None
    /\ Contiguous(Concatenated.idx)
    /\ OneCandidateHigh
    /\ Cardinality(ra_ret.df[1].idx) >= 3
    /\ ra_t0_idx >= 1

\* The aligner found a trip (row ra_t0_idx of the ra_df_all rows) and was
\* given the window <<t1, t2>>.
Windowed == AlignerRan /\ ra_npermit_col # None /\ ra_t_range # None

\* The rows of df at the positions a..(b-1).
RowsAt(df, a, b) == {t \in df.idx : a <= PosOf(df, t) /\ PosOf(df, t) < b}

\* C19 as claimed: with a window (t1, t2) that lies within the table, the
\* table holds exactly the rows k+t1..k+t2-1: t2-t1 rows whose t_us runs
\* from t1 to t2-1.
C19_WindowRowsAndTimes ==
    LET k == ra_t0_idx
        n == Cardinality(ra_df_all.idx)
    IN  (Windowed /\ 0 <= k + ra_t_range[1] /\ k + ra_t_range[2] <= n) =>
            /\ ra_df.idx = RowsAt(ra_df_all, k + ra_t_range[1], k + ra_t_range[2])
            /\ Cardinality(ra_df.idx) = ra_t_range[2] - ra_t_range[1]
            /\ \A t \in ra_df.idx :
                  ra_df.val[<<"t_us", t>>] = PosOf(ra_df_all, t) - k

\* C19 as amended: with a window (t1, t2) that lies within the table, the
\* table holds exactly the rows k+t1..k+t2-1, t2-t1 of them; t_us of a row
\* is the number of microseconds from the trip instant to the row, which
\* runs from t1 to t2-1 when the index of these rows has no gap.
C19_WindowRows ==
    LET k == ra_t0_idx
        n == Cardinality(ra_df_all.idx)
    IN  (Windowed /\ 0 <= k + ra_t_range[1] /\ k + ra_t_range[2] <= n) =>
            /\ ra_df.idx = RowsAt(ra_df_all, k + ra_t_range[1], k + ra_t_range[2])
            /\ Cardinality(ra_df.idx) = ra_t_range[2] - ra_t_range[1]
            /\ \A t \in ra_df.idx :
                  ra_df.val[<<"t_us", t>>] = t - IndexAt(ra_df_all, k)
            /\ Contiguous(ra_df.idx \cup {IndexAt(ra_df_all, k)}) =>
                  \A t \in ra_df.idx :
                     ra_df.val[<<"t_us", t>>] = PosOf(ra_df_all, t) - k
            /\ ra_pc = "done" => ra_ret.df = Some(ra_df)

\* read_data has returned three rows or more of a longer table, from before
\* the trip row to after it.
C19_Witness ==
    /\ ra_pc = "done"
    /\ ra_ret.df # None
    /\ Windowed
    /\ 0 <= ra_t0_idx + ra_t_range[1]
    /\ ra_t0_idx + ra_t_range[2] <= Cardinality(ra_df_all.idx)
    /\ ra_t_range[1] < 0
    /\ Cardinality(ra_ret.df[1].idx) >= 3
    /\ Cardinality(ra_ret.df[1].idx) < Cardinality(ra_df_all.idx)

\* C20: when the window reaches outside the table its bounds are clipped:
\* the table holds exactly the rows at the positions max(0, k+t1) up to
\* min(N, k+t2), so that it starts at row 0 and contains the trip row when
\* k+t1 is negative.
C20_WindowClipped ==
    LET k == ra_t0_idx
        n == Cardinality(ra_df_all.idx)
        lo == IF k + ra_t_range[1] < 0 THEN 0 ELSE k + ra_t_range[1]
        hi == IF k + ra_t_range[2] > n THEN n ELSE k + ra_t_range[2]
    IN  Windowed => ra_df.idx = RowsAt(ra_df_all, lo, hi)

(***************************************************************************)
(* Properties of the channel deriver (specification SpecRead).             *)
(***************************************************************************)
\* The deriver is about to run on a table it can derive the BPM columns of:
\* the table has rows, or the file has no BPM.
Derivable == ra_pc = "derive" /\ ~(ra_dfs.names # {} /\ ra_df.idx = {})

\* scale(A)*A - scale(B)*B at instant t for the pair p = <<result, A, B>>;
\* missing where A or B is missing.
DbcmValue(df, bcm_fscale_map, p, t) ==
    LET a == df.val[<<p[2], t>>]
        b == df.val[<<p[3], t>>]
    IN  IF a = NaN \/ b = NaN THEN NaN
        ELSE bcm_fscale_map[BCM_FSCALE_NAME_MAP(p[2])] * a
             - bcm_fscale_map[BCM_FSCALE_NAME_MAP(p[3])] * b

IsDbcm(c) == \E p \in DbcmPairs : p[1] = c

C22_EmptyMapNoDbcm ==
    ( /\ ra_pc \in {"done", "raised"}
      /\ ra_dfs.ok
      /\ ra_npermit_col # None
      /\ ~(ra_dfs.names # {} /\ ra_df.idx = {})
      /\ ra_dfs.fscale.present
      /\ DOMAIN ra_dfs.fscale.map = {} )
    => /\ ra_pc = "done"
       /\ ra_ret.df # None
       /\ \A c \in ra_df.cols : ~IsDbcm(c)

\* C28: BCM6_NPERMIT is a permit candidate: a table in which it is the only
\* permit channel with a high sample is aligned to its first high row, and
\* no error is logged.
C28_Bcm6IsCandidate ==
    ( /\ AlignerRan
      /\ "BCM6_NPERMIT" \in Concatenated.cols
      /\ ~AllZero(Concatenated, "BCM6_NPERMIT")
      /\ \A c \in CandidatesIn(Concatenated) : AllZero(Concatenated, c) )
    => /\ ra_log = <<>>
       /\ ra_npermit_col = Some("BCM6_NPERMIT")
       /\ ra_t0_idx = FirstHigh(Concatenated, "BCM6_NPERMIT")

\* C29: a v1 file with its four blocks whose name does not begin with a
\* date and time is read without the legacy rename: the reader does not
\* raise, and no frame has a renamed column.
C29_UnparsableNameNoRename ==
    ( /\ ra_pc \notin {"idle", "call"}
      /\ {"grp", "t0", "bcm", "bpm"} \subseteq ra_store.keys
      /\ ~CreatedOk(ra_store.filename) )
    => /\ ~ra_dfs.raised
       /\ ra_pc # "raised"
       /\ \A i \in DOMAIN ra_dfs.dfs :
             ra_dfs.dfs[i].cols \cap {"BCM_D1120c", "BCM_D0989"} = {}

(***************************************************************************)
(* Properties of process_bpm_cplx (specification SpecBpm).                 *)
(***************************************************************************)
\* The magnitude and the phase of component i of name in the row at t.
MagOf(df, name, i, t) == df.val[<<MagColumn(name, i), t>>]
PhaOf(df, name, i, t) == df.val[<<PhaColumn(name, i), t>>]

\* C23: for every BPM name and every row whose four components have phase
\* 0, the derived magnitude is the sum of the four component magnitudes and
\* the derived phase is 0; four components of magnitude 1 and phase 0 give
\* magnitude 4 and phase 0.
C23_PhaseZeroSumsMagnitudes ==
    (ra_pc = "done" /\ ra_ret.df # None) =>
        \A name \in ra_dfs.names : \A t \in ra_ret.df[1].idx :
            (\A i \in 1..4 : PhaOf(ra_df_all, name, i, t) = 0) =>
                /\ ra_ret.df[1].val[<<MagName(name), t>>]
                      = MagOf(ra_df_all, name, 1, t) + MagOf(ra_df_all, name, 2, t)
                        + MagOf(ra_df_all, name, 3, t) + MagOf(ra_df_all, name, 4, t)
                /\ ra_ret.df[1].val[<<PhaName(name), t>>] = 0
                /\ (\A i \in 1..4 : MagOf(ra_df_all, name, i, t) = 1) =>
                      ra_ret.df[1].val[<<MagName(name), t>>] = 4

\* read_data has returned a row derived from four components of magnitude 1
\* and phase 0.
C23_Witness ==
    /\ ra_pc = "done"
    /\ ra_ret.df # None
    /\ "BPM_D2212" \in ra_dfs.names
    /\ \E t \in ra_ret.df[1].idx :
          /\ \A i \in 1..4 : /\ MagOf(ra_df_all, "BPM_D2212", i, t) = 1
                             /\ PhaOf(ra_df_all, "BPM_D2212", i, t) = 0
          /\ ra_ret.df[1].val[<<"BPM_D2212-MAG", t>>] = 4
          /\ ra_ret.df[1].val[<<"BPM_D2212-PHA", t>>] = 0

(***************************************************************************)
(* Properties of the optimized file (specification SpecRead).              *)
(***************************************************************************)
\* The channel columns of a table: every column but t_us.
Channels(df) == df.cols \ {"t_us"}

\* C24: every table read_data returns can be exported as an optimized file
\* and read back whole: the trip-time string, the t_us values, the channel
\* columns with their values and the calibration map are those read_data
\* returned.
C24_OptRoundTrip ==
    (ra_pc = "done" /\ ra_ret.df # None /\ xp_pc # "idle") =>
        /\ xp_pc # "raised"
        /\ xp_pc = "read" =>
              LET df == ra_ret.df[1]
                  back == xp_ret.df[1]
              IN  /\ xp_ret.t0 = ra_ret.t0
                  /\ back.idx = df.idx
                  /\ \A t \in df.idx : back.val[<<"t_us", t>>] = df.val[<<"t_us", t>>]
                  /\ Channels(back) = Channels(df)
                  /\ \A c \in Channels(df) : \A t \in df.idx :
                        back.val[<<c, t>>] = df.val[<<c, t>>]
                  /\ xp_ret.attrs = ra_ret.attrs

\* The same as C24 for the tables that have the trip row.
OptRoundTripWithTripRow ==
    (ra_pc = "done" /\ ra_ret.df # None /\ xp_pc # "idle"
        /\ ZeroRows(ra_ret.df[1]) # {}) => C24_OptRoundTrip

\* An optimized file with a calibration map, DBCM columns and two rows or
\* more has been read back.
OptReadBack ==
    /\ xp_pc = "read"
    /\ xp_ret.attrs.present
    /\ Cardinality(xp_ret.df[1].idx) >= 2
    /\ \E c \in xp_ret.df[1].cols : IsDbcm(c)

(***************************************************************************)
(* Properties of convert_tool and export_df (specification SpecConvert).   *)
(***************************************************************************)
\* The positions of the paths of the batch.
Inputs == DOMAIN cv_log

\* C25: when the writer of a format fails in export_df, every other
\* requested format of the same table is still attempted: each requested
\* format had its writer called or was skipped because its file is there.
C25_OtherFormatsStillAttempted ==
    \A i \in Inputs :
        cv_log[i] = LogExportRaised =>
            \A f \in Range(cv_fmts) :
                \/ <<i, f>> \in cv_tried
                \/ cv_out[<<i, f>>].exists /\ ~cv_overwrite

\* C26: a failure on one path never aborts the batch: convert_tool does not
\* raise, and when it returns every path of the sorted list has been
\* processed (its outputs written, or skipped with a log line).
C26_BatchNeverAborts ==
    /\ cv_pc # "raised"
    /\ cv_pc = "done" =>
          \A i \in Inputs : cv_log[i] \in {LogExisting, LogSkip, LogExported}

\* C27: with overwrite not set, no step of the batch changes an output file
\* that is there; an iteration that exports leaves every requested format
\* of its path written; and a path whose requested outputs are all there is
\* not read.
C27_ExistingOutputsUntouched ==
    [][ ~cv_overwrite =>
          /\ \A x \in DOMAIN cv_out : cv_out[x].exists => cv_out'[x] = cv_out[x]
          /\ \A i \in Inputs :
                (cv_log[i] = LogNone /\ cv_log'[i] # LogNone) =>
                   /\ cv_log'[i] = LogExported =>
                         \A f \in Range(cv_fmts) :
                            /\ cv_out'[<<i, f>>].exists
                            /\ ~cv_out[<<i, f>>].exists => ~cv_out'[<<i, f>>].old
                   /\ (\A f \in Range(cv_fmts) : cv_out[<<i, f>>].exists) <=>
                         cv_log'[i] = LogExisting
                   /\ cv_log'[i] = LogExisting => cv_read' = cv_read /\ i \notin cv_read'
      ]_vars

\* Without overwrite, the .csv of the first path was there and is as it
\* was, and the .h5 of the same path has been written by the batch.
C27_Witness ==
    /\ ~cv_overwrite
    /\ cv_log[1] = LogExported
    /\ cv_out[<<1, "csv">>] = OldOut
    /\ cv_out[<<1, "h5">>].exists
    /\ ~cv_out[<<1, "h5">>].old
    /\ cv_out[<<1, "h5">>].h5.t_zero # EmptyStr

\* A batch of two paths whose outputs were all there has returned without
\* reading any.
AllExistingNotRead ==
    /\ cv_pc = "done"
    /\ ~cv_overwrite
    /\ Len(cv_files) = 2
    /\ \A i \in Inputs : cv_log[i] = LogExisting
    /\ cv_read = {}

(***************************************************************************)
(* Properties of the viewer (specification SpecViewer).                    *)
(***************************************************************************)
\* C30: the viewer returns and caches for a fault ID only files of exactly
\* that fault ID: every item of the cache, the data path returned last and
\* the image path returned last belong to the fault ID they were looked up
\* for.
C30_OnlyOwnFiles ==
    /\ \A e \in vw_cache : e[2].ftid = e[1][1]
    /\ vw_data.path # None => Some(vw_data.path[1].ftid) = vw_data.ftid
    /\ vw_img.path # None => Some(vw_img.path[1].ftid) = vw_img.ftid

\* A data path was found for 3355 and cached, and evicted when its file was
\* removed.
EvictedAfterRemoval ==
    /\ vw_ftid = Some(3355)
    /\ vw_data.ftid = Some(3355)
    /\ vw_data.path # None
    /\ vw_data.path[1] \notin vw_files
    /\ CacheKey(3355, vw_data.is_opt) \notin CacheKeys(vw_cache)

====
